---- MODULE Spec2Model ----
(***************************************************************************)
(* The relay engine of new-api: the text pipeline TextHelper               *)
(* (relay/relay-text.go) with its quota ledger: preConsumeQuota,           *)
(* returnPreConsumedQuota and postConsumeQuota, run by several concurrent  *)
(* requests of one account and one credential against the shared quota     *)
(* cache and store.                                                        *)
(*                                                                         *)
(* Floating-point prices and ratios are exact rationals <<num, den>>;      *)
(* Go's int(x) conversion of a non-negative float is the integer quotient. *)
(***************************************************************************)
EXTENDS Integers, Sequences, FiniteSets, TLC

\* ------------------------------------------------------------------ bounds

\* Largest token count the tokenizer or the upstream usage reports.
MaxTokens == 1
\* Largest of the small initial balances (the large ones are derived below).
LowQuota == 2

\* The requests in flight, all of the same account, credential and channel:
\* two, the least number that can race on the shared balances.
Reqs == {1, 2}

\* ------------------------------------------------- configuration constants

\* The trust threshold factor of preConsumeQuota (100 * preConsumedQuota).
TrustFactor == 100
\* common.PreConsumedQuota: tokens assumed when max_tokens is unset.
PreConsumedQuota == 2
\* common.QuotaPerUnit: quota units per unit of price.
QuotaPerUnit == 4
\* math.MaxInt32 / 2, the upper bound of max_tokens.
MaxInt32Half == 1073741823

\* modelPrice == -1: the model has no fixed price (ratio pricing).
NoPrice == <<-1, 1>>

\* The pricing configurations: GetModelPrice, GetModelRatio, GetGroupRatio
\* and GetCompletionRatio for the request's model and group.
Pricings ==
    { [modelPrice |-> NoPrice, modelRatio |-> <<0, 1>>, groupRatio |-> <<1, 1>>, completionRatio |-> <<1, 1>>],
      [modelPrice |-> NoPrice, modelRatio |-> <<1, 2>>, groupRatio |-> <<1, 1>>, completionRatio |-> <<3, 2>>],
      [modelPrice |-> NoPrice, modelRatio |-> <<1, 2>>, groupRatio |-> <<2, 1>>, completionRatio |-> <<2, 1>>],
      [modelPrice |-> <<1, 2>>, modelRatio |-> <<1, 1>>, groupRatio |-> <<1, 1>>, completionRatio |-> <<1, 1>>] }

\* ------------------------------------------------------- pure computations

\* float64 product of two ratios.
RatMul(a, b) == <<a[1] * b[1], a[2] * b[2]>>

\* int(float64(x) * r) for x >= 0 and a ratio r >= 0.
IntMul(x, r) == (x * r[1]) \div r[2]

\* The amount TextHelper asks preConsumeQuota to reserve.
PriceRequest(p, promptTokens, maxTokens) ==
    IF p.modelPrice = NoPrice
    THEN LET preConsumedTokens ==
                 IF maxTokens # 0 THEN promptTokens + maxTokens ELSE PreConsumedQuota
             ratio == RatMul(p.modelRatio, p.groupRatio)
         IN  IntMul(preConsumedTokens, ratio)
    ELSE IntMul(QuotaPerUnit, RatMul(p.modelPrice, p.groupRatio))

\* The ratio TextHelper hands to postConsumeQuota: modelRatio * groupRatio
\* under ratio pricing, the zero value of the variable under a fixed price.
RatioOf(p) ==
    IF p.modelPrice = NoPrice THEN RatMul(p.modelRatio, p.groupRatio) ELSE <<0, 1>>

\* The quota with the product rounded to the nearest integer.
QuotaBeforeZeroCheck_Rounds(p, promptTokens, completionTokens) ==
    IF p.modelPrice = NoPrice
    THEN LET cr == p.completionRatio
             r == RatioOf(p)
             q2 == (2 * (promptTokens * cr[2] + completionTokens * cr[1]) * r[1] + cr[2] * r[2])
                       \div (2 * cr[2] * r[2])
         IN  IF r[1] # 0 /\ q2 <= 0 THEN 1 ELSE q2
    ELSE IntMul(QuotaPerUnit, RatMul(p.modelPrice, p.groupRatio))

\* The quota postConsumeQuota computes before it looks at the total tokens.
QuotaBeforeZeroCheck(p, promptTokens, completionTokens) ==
    IF p.modelPrice = NoPrice
    THEN LET q1 == promptTokens + IntMul(completionTokens, p.completionRatio)
             q2 == IntMul(q1, RatioOf(p))
         IN  IF RatioOf(p)[1] # 0 /\ q2 <= 0 THEN 1 ELSE q2
    ELSE IntMul(QuotaPerUnit, RatMul(p.modelPrice, p.groupRatio))

ConsumeQuota_NoZeroCheck(p, promptTokens, completionTokens) ==
    QuotaBeforeZeroCheck(p, promptTokens, completionTokens)

\* The charge of postConsumeQuota: forced to 0 when the total tokens are 0.
ConsumeQuota(p, promptTokens, completionTokens) ==
    IF promptTokens + completionTokens = 0
    THEN 0
    ELSE QuotaBeforeZeroCheck(p, promptTokens, completionTokens)

UserQuotaInsufficient_NoSignCheck(userQuota, preConsumedQuota) ==
    userQuota - preConsumedQuota < 0

\* The sufficiency check of preConsumeQuota on the balance it read.
UserQuotaInsufficient(userQuota, preConsumedQuota) ==
    userQuota <= 0 \/ userQuota - preConsumedQuota < 0

Trusted_AtLeast(userQuota, preConsumedQuota, tokenUnlimited, tokenQuota) ==
    /\ userQuota > TrustFactor * preConsumedQuota
    /\ (tokenUnlimited \/ tokenQuota >= TrustFactor * preConsumedQuota)

\* The trust decision of preConsumeQuota: TRUE when no reservation is made.
Trusted(userQuota, preConsumedQuota, tokenUnlimited, tokenQuota) ==
    /\ userQuota > TrustFactor * preConsumedQuota
    /\ (tokenUnlimited \/ tokenQuota > TrustFactor * preConsumedQuota)


\* ------------------------------------------------------ request validation

RelayModes ==
    {"chat_completions", "completions", "embeddings", "moderations", "edits", "unknown"}

\* A complete request body: every field present, max_tokens unset.
FullRequest ==
    [json |-> TRUE, model |-> TRUE, paramModel |-> FALSE, maxTokens |-> 0,
     prompt |-> TRUE, messages |-> 1, input |-> TRUE, instruction |-> TRUE]

\* The request bodies tried: the complete one and its single-field variations
\* (model, prompt, input, instruction: whether the string is non-empty;
\* messages: the length of the list; paramModel: whether the :model path
\* parameter is non-empty; json: whether the body unmarshals).
TextRequests ==
    { FullRequest,
      [FullRequest EXCEPT !.json = FALSE],
      [FullRequest EXCEPT !.maxTokens = 1],
      [FullRequest EXCEPT !.maxTokens = -1],
      [FullRequest EXCEPT !.maxTokens = MaxInt32Half + 1],
      [FullRequest EXCEPT !.model = FALSE],
      [FullRequest EXCEPT !.model = FALSE, !.paramModel = TRUE],
      [FullRequest EXCEPT !.prompt = FALSE],
      [FullRequest EXCEPT !.messages = 0],
      [FullRequest EXCEPT !.input = FALSE],
      [FullRequest EXCEPT !.instruction = FALSE] }

\* getAndValidateTextRequest: "" when the request is valid, else the error.
getAndValidateTextRequest(relayMode, t) ==
    LET model == \/ t.model
                 \/ relayMode = "moderations"
                 \/ (relayMode = "embeddings" /\ t.paramModel)
    IN  IF ~t.json THEN "unmarshal failed"
        ELSE IF t.maxTokens < 0 \/ t.maxTokens > MaxInt32Half THEN "max_tokens is invalid"
        ELSE IF ~model THEN "model is required"
        ELSE IF relayMode = "completions" /\ ~t.prompt THEN "field prompt is required"
        ELSE IF relayMode = "chat_completions" /\ t.messages = 0 THEN "field messages is required"
        ELSE IF relayMode = "moderations" /\ ~t.input THEN "field input is required"
        ELSE IF relayMode = "edits" /\ ~t.instruction THEN "field instruction is required"
        ELSE ""

\* What the tokenizer service answers: a count, a failure, or a prompt-side
\* sensitive match.
TokenizerOutcomes ==
    [tokens : 0..MaxTokens, err : {""}, sensitiveTrigger : {FALSE}]
        \cup { [tokens |-> 0, err |-> "count failed", sensitiveTrigger |-> FALSE],
               [tokens |-> 0, err |-> "sensitive words detected", sensitiveTrigger |-> TRUE] }

\* getPromptTokens: the tokenizer's answer for the modes its switch names,
\* the unknown-relay-mode error for every other mode.
getPromptTokens(relayMode, tok) ==
    IF relayMode \in {"chat_completions", "completions", "moderations", "embeddings"}
    THEN tok
    ELSE [tokens |-> 0, err |-> "unknown relay mode", sensitiveTrigger |-> FALSE]

\* ------------------------------------------------------------------- state

VARIABLES
    cfg,              \* configuration and initial balances, fixed per run
    userQuotaCache,   \* the account's balance in the quota cache
    userQuotaDB,      \* the account's balance in the persistent store
    tokenRemainQuota, \* the credential's remaining quota
    userUsedQuota,    \* the account's used-quota counter
    userRequestCount, \* the account's request counter
    channelUsedQuota, \* the channel's used-quota counter
    consumeLog,       \* the consume log: per entry the request, its total tokens, the quota
    rq,               \* per request: position and locals of TextHelper
    returnGo,         \* per request: amount the return goroutine still has to give back
    hist,             \* per request: what the request has done so far (see InitRelay)
    calc,             \* one run of postConsumeQuota's charge computation, on its own
    \* one response on its way through DoResponse, on its own:
    streamCfg,        \* the request's and the answer's properties, fixed per run
    IsStream,         \* relayInfo.IsStream
    scanner,          \* the lines of resp.Body the producer has not read yet
    dataChan,         \* the hand-off queue from the producer to the write loop
    stopChan,         \* the stop signals sent and not yet received
    clientFrames,     \* the frames written to the client
    streamItems,      \* the payloads the producer keeps for the text
    responseText,     \* responseTextBuilder
    spc,              \* positions of the handler and of the producer, and the result
    filt,             \* one call of the sensitive-word filter, on its own
    plain,            \* one response on its way through OpenaiHandler, on its own
    ctl,              \* one chain of attempts through controller.Relay, on its own
    azure,            \* one call of Adaptor.GetRequestURL, on its own
    prep              \* one request on its way through TextHelper's preparation, on its own

streamVars ==
    <<streamCfg, IsStream, scanner, dataChan, stopChan, clientFrames, streamItems,
      responseText, spc>>

\* The variables of the remaining specifications.
rest == <<filt, plain, ctl, azure, prep>>

\* What the requests of TextHelper leave alone.
aside == <<calc, streamVars, rest>>

vars ==
    <<cfg, userQuotaCache, userQuotaDB, tokenRemainQuota, userUsedQuota,
      userRequestCount, channelUsedQuota, consumeLog, rq, returnGo, hist, calc,
      streamVars, rest>>

ledger == <<userQuotaCache, userQuotaDB, tokenRemainQuota>>
counters == <<userUsedQuota, userRequestCount, channelUsedQuota, consumeLog>>

NoErr == [code |-> "", status |-> 0]
OpenAIErrorWrapper(code, status) == [code |-> code, status |-> status]

\* Initial account balances: the small ones, the trust threshold of a
\* requested amount of 1, and one above the threshold of every amount.
InitQuotas == (0..LowQuota) \cup {TrustFactor, TrustFactor * (LowQuota + 1) + 1}

\* Initial credential balances: empty, small, and the same two large ones.
InitTokenQuotas == {0, LowQuota, TrustFactor, TrustFactor * (LowQuota + 1) + 1}

InitRelay ==
    /\ cfg \in [pricing : Pricings, tokenUnlimited : BOOLEAN,
                userQuota : InitQuotas, tokenQuota : InitTokenQuotas]
    /\ cfg.tokenUnlimited => cfg.tokenQuota = 0
    /\ userQuotaCache = cfg.userQuota
    /\ userQuotaDB = cfg.userQuota
    /\ tokenRemainQuota = cfg.tokenQuota
    /\ userUsedQuota = 0
    /\ userRequestCount = 0
    /\ channelUsedQuota = 0
    /\ consumeLog = <<>>
    /\ rq = [r \in Reqs |->
               [pc |-> "start", preConsumedQuota |-> 0, userQuota |-> 0, tokenQuota |-> 0,
                err |-> NoErr]]
    /\ returnGo = [r \in Reqs |-> 0]
    \* requested: the amount handed to preConsumeQuota; read, readQuota: the
    \* balance it read; reserved: the amount it returned; charge, totalTokens:
    \* the quota and tokens of postConsumeQuota; nReturn, returnArg, nPost: the
    \* calls of returnPreConsumedQuota and postConsumeQuota; settleCalls: the
    \* (quota, preConsumedQuota) of postConsumeQuota's PostConsumeTokenQuota
    \* calls; cacheDebit, tokenDebit, dbDebit: what the request has taken from
    \* each balance so far; adaptor, upstream: whether the adaptor was
    \* initialised and the upstream called; status: the status of the
    \* upstream's response; handler: whether DoResponse was called; sensitive:
    \* whether it reported a sensitive match; stop: StopOnSensitiveEnabled as
    \* TextHelper read it after such a report. -1: not yet.
    /\ hist = [r \in Reqs |->
               [requested |-> -1, read |-> FALSE, readQuota |-> 0, reserved |-> -1,
                charge |-> -1, totalTokens |-> -1,
                nReturn |-> 0, returnArg |-> -1, nPost |-> 0, settleCalls |-> <<>>,
                cacheDebit |-> 0, tokenDebit |-> 0, dbDebit |-> 0,
                adaptor |-> FALSE, upstream |-> FALSE, status |-> -1,
                handler |-> FALSE, sensitive |-> FALSE, stop |-> FALSE]]

\* No charge computation is under way.
NoCalc == [pc |-> "none"]

\* No response is being handled.
StreamIdle ==
    /\ streamCfg = [Stream |-> FALSE, eventStream |-> FALSE, RelayMode |-> "chat_completions",
                    checkSensitive |-> FALSE, StopOnSensitiveEnabled |-> FALSE, lines |-> <<>>]
    /\ IsStream = FALSE
    /\ scanner = <<>>
    /\ dataChan = <<>>
    /\ stopChan = <<>>
    /\ clientFrames = <<>>
    /\ streamItems = <<>>
    /\ responseText = <<>>
    /\ spc = [main |-> "idle", producer |-> "idle", handler |-> "none", err |-> "", text |-> <<>>,
              gone |-> FALSE, bodyClosed |-> FALSE]

\* Nothing is under way in the remaining specifications.
NoFilt == [pc |-> "none"]
NoPlain == [pc |-> "none"]
NoCtl == [pc |-> "none"]
NoAzure == [pc |-> "none"]
NoPrep == [pc |-> "none"]
RestIdle ==
    filt = NoFilt /\ plain = NoPlain /\ ctl = NoCtl /\ azure = NoAzure /\ prep = NoPrep


Init ==
    /\ InitRelay
    /\ calc = NoCalc
    /\ StreamIdle
    /\ RestIdle


\* ----------------------------------------------------- the ledger's store

\* CacheGetUserQuota: the account's balance as the quota cache holds it.
CacheGetUserQuota == userQuotaCache

\* CacheDecreaseUserQuota: the cache's atomic decrement of the balance.
CacheDecreaseUserQuota(quota) == userQuotaCache' = userQuotaCache - quota

\* PreConsumeTokenQuota fails when the credential cannot cover the amount.
PreConsumeTokenQuotaFails(quota) ==
    ~cfg.tokenUnlimited /\ tokenRemainQuota < quota

\* PostConsumeTokenQuota: the credential (unless unlimited) and the account's
\* stored balance are debited by quota, a negative quota being a refund.
\* PreConsumeTokenQuota, once it accepts, debits the same two balances.
PostConsumeTokenQuota(quota) ==
    /\ tokenRemainQuota' = IF cfg.tokenUnlimited THEN tokenRemainQuota
                           ELSE tokenRemainQuota - quota
    /\ userQuotaDB' = userQuotaDB - quota

\* What a debit of quota takes from the credential.
TokenDebit(quota) == IF cfg.tokenUnlimited THEN 0 ELSE quota

\* ------------------------------------------------------------ TextHelper

\* TextHelper up to the call of preConsumeQuota: validation, model mapping,
\* prompt tokens, and the amount to reserve.
TextHelperPrepare(relayMode, t, mappingOk, tok) ==
    LET verr == getAndValidateTextRequest(relayMode, t)
        pt == getPromptTokens(relayMode, tok)
    IN  IF verr # ""
        THEN [err |-> OpenAIErrorWrapper("invalid_text_request", 400), quota |-> 0]
        ELSE IF ~mappingOk
        THEN [err |-> OpenAIErrorWrapper("unmarshal_model_mapping_failed", 500), quota |-> 0]
        ELSE IF pt.err # ""
        THEN [err |-> IF pt.sensitiveTrigger
                      THEN OpenAIErrorWrapper("sensitive_words_detected", 400)
                      ELSE OpenAIErrorWrapper("count_token_messages_failed", 500),
              quota |-> 0]
        ELSE [err |-> NoErr, quota |-> PriceRequest(cfg.pricing, pt.tokens, t.maxTokens)]

\* TextHelper returns e: its locals are gone with its frame.
Finish(r, e) ==
    [rq EXCEPT ![r] = [pc |-> "done", preConsumedQuota |-> 0, userQuota |-> 0,
                       tokenQuota |-> 0, err |-> e]]

\* TextHelper decreasing the cached balance by the default amount before it
\* validates the request and counts its tokens.
ValidateAndPrice_ReservesFirst(r) ==
    /\ rq[r].pc = "start"
    /\ \A s \in Reqs : s < r => rq[s].pc # "start"
    /\ \E p \in { TextHelperPrepare(relayMode, t, mappingOk, tok) :
                    relayMode \in RelayModes, t \in TextRequests,
                    mappingOk \in BOOLEAN, tok \in TokenizerOutcomes } :
             IF p.err # NoErr
             THEN /\ rq' = Finish(r, p.err)
                  /\ userQuotaCache' = userQuotaCache - PreConsumedQuota
                  /\ hist' = [hist EXCEPT ![r].cacheDebit = @ + PreConsumedQuota]
             ELSE /\ rq' = [rq EXCEPT ![r] = [@ EXCEPT !.pc = "pre_get",
                                                      !.preConsumedQuota = p.quota,
                                                      !.tokenQuota = tokenRemainQuota]]
                  /\ hist' = [hist EXCEPT ![r].requested = p.quota]
                  /\ UNCHANGED userQuotaCache
    /\ UNCHANGED <<aside, cfg, userQuotaDB, tokenRemainQuota, counters, returnGo>>

\* The requests are interchangeable, so they are let in in the order of their
\* numbers: every run is a renumbering of one that starts them in this order.
ValidateAndPrice(r) ==
    /\ rq[r].pc = "start"
    /\ \A s \in Reqs : s < r => rq[s].pc # "start"
    /\ \E p \in { TextHelperPrepare(relayMode, t, mappingOk, tok) :
                    relayMode \in RelayModes, t \in TextRequests,
                    mappingOk \in BOOLEAN, tok \in TokenizerOutcomes } :
             IF p.err # NoErr
             THEN /\ rq' = Finish(r, p.err)
                  /\ UNCHANGED hist
             ELSE /\ rq' = [rq EXCEPT ![r] = [@ EXCEPT !.pc = "pre_get",
                                                      !.preConsumedQuota = p.quota,
                                                      !.tokenQuota = tokenRemainQuota]]
                  /\ hist' = [hist EXCEPT ![r].requested = p.quota]
    /\ UNCHANGED <<aside, cfg, ledger, counters, returnGo>>

\* preConsumeQuota, first step: read the cached balance and check it.
PreGetUserQuota(r) ==
    /\ rq[r].pc = "pre_get"
    /\ \E ok \in BOOLEAN :
         IF ~ok
         THEN /\ rq' = Finish(r, OpenAIErrorWrapper("get_user_quota_failed", 500))
              /\ UNCHANGED hist
         ELSE LET userQuota == CacheGetUserQuota
              IN  /\ hist' = [hist EXCEPT ![r].read = TRUE, ![r].readQuota = userQuota]
                  /\ IF UserQuotaInsufficient(userQuota, rq[r].preConsumedQuota)
                     THEN rq' = Finish(r, OpenAIErrorWrapper("insufficient_user_quota", 403))
                     ELSE rq' = [rq EXCEPT ![r] =
                                   [@ EXCEPT !.pc = "pre_dec", !.userQuota = userQuota]]
    /\ UNCHANGED <<aside, cfg, ledger, counters, returnGo>>

\* preConsumeQuota, second step: decrease the cached balance, then decide
\* whether the request is trusted.
PreDecreaseUserQuota(r) ==
    /\ rq[r].pc = "pre_dec"
    /\ \E ok \in BOOLEAN :
         IF ~ok
         THEN /\ rq' = Finish(r, OpenAIErrorWrapper("decrease_user_quota_failed", 500))
              /\ UNCHANGED <<hist, userQuotaCache>>
         ELSE LET quota == rq[r].preConsumedQuota
                  trusted == Trusted(rq[r].userQuota, quota, cfg.tokenUnlimited, rq[r].tokenQuota)
                  pre == IF trusted THEN 0 ELSE quota
              IN  /\ CacheDecreaseUserQuota(quota)
                  /\ IF pre > 0
                     THEN /\ rq' = [rq EXCEPT ![r].pc = "pre_token"]
                          /\ hist' = [hist EXCEPT ![r].cacheDebit = @ + quota]
                     ELSE /\ rq' = [rq EXCEPT ![r] = [@ EXCEPT !.pc = "adaptor",
                                                              !.preConsumedQuota = 0]]
                          /\ hist' = [hist EXCEPT ![r].cacheDebit = @ + quota,
                                                  ![r].reserved = 0]
    /\ UNCHANGED <<aside, cfg, userQuotaDB, tokenRemainQuota, counters, returnGo>>

\* preConsumeQuota, third step: reserve against the credential.
PreConsumeToken(r) ==
    /\ rq[r].pc = "pre_token"
    /\ LET quota == rq[r].preConsumedQuota
       IN  IF PreConsumeTokenQuotaFails(quota)
           THEN /\ rq' = Finish(r, OpenAIErrorWrapper("pre_consume_token_quota_failed", 403))
                /\ UNCHANGED <<hist, userQuotaDB, tokenRemainQuota>>
           ELSE /\ PostConsumeTokenQuota(quota)
                /\ rq' = [rq EXCEPT ![r] = [@ EXCEPT !.pc = "adaptor",
                                                         !.userQuota = userQuotaDB - quota]]
                /\ hist' = [hist EXCEPT ![r].reserved = quota,
                                        ![r].tokenDebit = @ + TokenDebit(quota),
                                        ![r].dbDebit = @ + quota]
    /\ UNCHANGED <<aside, cfg, userQuotaCache, counters, returnGo>>

\* How GetAdaptor and the building of the request body can end.
BuildOutcomes ==
    { NoErr,
      OpenAIErrorWrapper("invalid_api_type", 400),
      OpenAIErrorWrapper("marshal_text_request_failed", 500),
      OpenAIErrorWrapper("convert_request_failed", 500),
      OpenAIErrorWrapper("json_marshal_failed", 500) }

GetAdaptorAndBuild(r) ==
    /\ rq[r].pc = "adaptor"
    /\ \E e \in BuildOutcomes :
         /\ rq' = IF e = NoErr THEN [rq EXCEPT ![r].pc = "do_request"] ELSE Finish(r, e)
         /\ hist' = [hist EXCEPT ![r].adaptor = (e.code # "invalid_api_type")]
    /\ UNCHANGED <<aside, cfg, ledger, counters, returnGo>>

\* returnPreConsumedQuota: starts the goroutine that gives the amount back,
\* unless the amount is 0. The value is returnGo after the call.
returnPreConsumedQuota(r, preConsumedQuota) ==
    IF preConsumedQuota # 0
    THEN [returnGo EXCEPT ![r] = preConsumedQuota]
    ELSE returnGo

\* The call of returnPreConsumedQuota, noted in the request's history h.
NoteReturn(h, r, preConsumedQuota) ==
    [h EXCEPT ![r].nReturn = @ + 1, ![r].returnArg = preConsumedQuota]

\* The upstream's answers: no answer at all (0), or an HTTP status.
UpstreamStatuses == {0, 200, 201, 429}

IsUpstreamFailure_Non2xx(status) == status < 200 \/ status > 299

\* TextHelper's test of the response's status.
IsUpstreamFailure(status) == status # 200

DoRequest(r) ==
    /\ rq[r].pc = "do_request"
    /\ \E status \in UpstreamStatuses :
         LET h == [hist EXCEPT ![r].upstream = TRUE,
                               ![r].status = IF status = 0 THEN -1 ELSE status]
         IN  IF status = 0
             THEN /\ rq' = Finish(r, OpenAIErrorWrapper("do_request_failed", 500))
                  /\ hist' = h
                  /\ UNCHANGED returnGo
             ELSE IF IsUpstreamFailure(status)
             THEN /\ rq' = Finish(r, OpenAIErrorWrapper("upstream_error", status))
                  /\ returnGo' = returnPreConsumedQuota(r, rq[r].preConsumedQuota)
                  /\ hist' = NoteReturn(h, r, rq[r].preConsumedQuota)
             ELSE /\ rq' = [rq EXCEPT ![r].pc = "do_response"]
                  /\ hist' = h
                  /\ UNCHANGED returnGo
    /\ UNCHANGED <<aside, cfg, ledger, counters>>

\* The goroutine of returnPreConsumedQuota:
\* PostConsumeTokenQuota(tokenId, userQuota, -preConsumedQuota, 0, false).
ReturnGoroutine(r) ==
    /\ returnGo[r] # 0
    /\ PostConsumeTokenQuota(-returnGo[r])
    /\ returnGo' = [returnGo EXCEPT ![r] = 0]
    /\ hist' = [hist EXCEPT ![r].tokenDebit = @ + TokenDebit(-returnGo[r]),
                            ![r].dbDebit = @ - returnGo[r]]
    /\ UNCHANGED <<aside, cfg, userQuotaCache, counters, rq>>

\* What adaptor.DoResponse hands back: (usage, error, sensitive report).
\* A handler error without a report carries no usage.
Usages == (0..MaxTokens) \X (0..MaxTokens)

ResponseOutcomes ==
    [usage : Usages, err : {NoErr}, sensitiveResp : {FALSE}]
        \cup [usage : Usages, err : {OpenAIErrorWrapper("sensitive_words_detected", 400)},
              sensitiveResp : {TRUE}]
        \cup [usage : {<<0, 0>>}, err : {OpenAIErrorWrapper("read_response_body_failed", 500)},
              sensitiveResp : {FALSE}]

QuotaDelta_IgnoresReservation(quota, preConsumedQuota) == quota

\* quotaDelta of postConsumeQuota.
QuotaDelta(quota, preConsumedQuota) == quota - preConsumedQuota

\* Whether postConsumeQuota settles with the store: the else branch of its
\* total-tokens test.
SettlesWithStore(totalTokens) == totalTokens # 0

\* postConsumeQuota from its total-tokens test on, with the quota and total
\* tokens it computed and h the request's history before the call.
postConsumeQuota(r, totalTokens, quota, h) ==
    LET quotaDelta == QuotaDelta(quota, rq[r].preConsumedQuota)
    IN  /\ IF SettlesWithStore(totalTokens)
           THEN /\ PostConsumeTokenQuota(quotaDelta)
                /\ userQuotaCache' = userQuotaDB'
                /\ userUsedQuota' = userUsedQuota + quota
                /\ userRequestCount' = userRequestCount + 1
                /\ channelUsedQuota' = channelUsedQuota + quota
                /\ hist' = [h EXCEPT ![r].nPost = @ + 1, ![r].charge = quota,
                                     ![r].totalTokens = totalTokens,
                                     ![r].settleCalls = Append(@, <<quotaDelta, rq[r].preConsumedQuota>>),
                                     ![r].tokenDebit = @ + TokenDebit(quotaDelta),
                                     ![r].dbDebit = @ + quotaDelta]
           ELSE /\ hist' = [h EXCEPT ![r].nPost = @ + 1, ![r].charge = quota,
                                     ![r].totalTokens = totalTokens]
                /\ UNCHANGED <<ledger, userUsedQuota, userRequestCount, channelUsedQuota>>
        /\ consumeLog' = Append(consumeLog,
                                [req |-> r, tokens |-> totalTokens, quota |-> quota])

\* TextHelper after DoResponse: whether it returns the reservation ...
ReturnsAfterResponse(err, sensitiveResp) == err # NoErr /\ ~sensitiveResp

SettlesAfterResponse_FallsThrough(err, sensitiveResp) == TRUE

\* ... whether it runs postConsumeQuota ...
SettlesAfterResponse(err, sensitiveResp) == ~(err # NoErr /\ ~sensitiveResp)

ErrAfterResponse_IgnoresPolicy(err, sensitiveResp, StopOnSensitiveEnabled) == err

\* ... and the error it returns.
ErrAfterResponse(err, sensitiveResp, StopOnSensitiveEnabled) ==
    IF err # NoErr /\ (~sensitiveResp \/ StopOnSensitiveEnabled) THEN err ELSE NoErr

\* What TextHelper makes of an answer o of DoResponse: whether it returns
\* the reservation, whether it settles, with which tokens and quota, the
\* error it returns, whether the answer reports a sensitive match and the
\* policy TextHelper then reads.
AfterResponse(o, StopOnSensitiveEnabled) ==
    [returns |-> ReturnsAfterResponse(o.err, o.sensitiveResp),
     sensitive |-> o.err # NoErr /\ o.sensitiveResp,
     stop |-> o.err # NoErr /\ o.sensitiveResp /\ StopOnSensitiveEnabled,
     settles |-> SettlesAfterResponse(o.err, o.sensitiveResp),
     totalTokens |-> o.usage[1] + o.usage[2],
     quota |-> ConsumeQuota(cfg.pricing, o.usage[1], o.usage[2]),
     err |-> ErrAfterResponse(o.err, o.sensitiveResp, StopOnSensitiveEnabled)]

DoResponseAndSettle(r) ==
    /\ rq[r].pc = "do_response"
    /\ \E a \in { AfterResponse(o, StopOnSensitiveEnabled) :
                    o \in ResponseOutcomes, StopOnSensitiveEnabled \in BOOLEAN } :
         LET h0 == [hist EXCEPT ![r].handler = TRUE, ![r].sensitive = a.sensitive,
                                ![r].stop = a.stop]
             h == IF a.returns THEN NoteReturn(h0, r, rq[r].preConsumedQuota) ELSE h0
         IN  /\ rq' = Finish(r, a.err)
             /\ returnGo' = IF a.returns
                            THEN returnPreConsumedQuota(r, rq[r].preConsumedQuota)
                            ELSE returnGo
             /\ IF a.settles
                THEN postConsumeQuota(r, a.totalTokens, a.quota, h)
                ELSE /\ hist' = h
                     /\ UNCHANGED <<ledger, counters>>
    /\ UNCHANGED <<aside, cfg>>

Next ==
    \E r \in Reqs :
        \/ ValidateAndPrice(r)
        \/ PreGetUserQuota(r)
        \/ PreDecreaseUserQuota(r)
        \/ PreConsumeToken(r)
        \/ GetAdaptorAndBuild(r)
        \/ DoRequest(r)
        \/ DoResponseAndSettle(r)
        \/ ReturnGoroutine(r)

Spec == Init /\ [][Next]_vars

\* ------------------------------------- the charge computation on its own

\* Largest prompt and completion token count of a usage that is charged.
MaxChargeTokens == 3

\* The pricings charged: those of the requests and further ratios and prices,
\* all of them binary fractions, which float64 holds exactly.
ChargePricings ==
    Pricings \cup
    { [modelPrice |-> NoPrice, modelRatio |-> <<1, 1>>, groupRatio |-> <<1, 1>>, completionRatio |-> <<3, 2>>],
      [modelPrice |-> NoPrice, modelRatio |-> <<3, 4>>, groupRatio |-> <<1, 1>>, completionRatio |-> <<1, 1>>],
      [modelPrice |-> NoPrice, modelRatio |-> <<1, 4>>, groupRatio |-> <<1, 2>>, completionRatio |-> <<5, 4>>],
      [modelPrice |-> <<3, 4>>, modelRatio |-> <<1, 1>>, groupRatio |-> <<1, 1>>, completionRatio |-> <<1, 1>>],
      [modelPrice |-> <<3, 8>>, modelRatio |-> <<1, 1>>, groupRatio |-> <<1, 1>>, completionRatio |-> <<1, 1>>] }

\* The variables of the requests.
relayVars == <<cfg, ledger, counters, rq, returnGo, hist>>

\* No request is under way: an unlimited credential on an empty account.
IdleCfg ==
    [pricing |-> [modelPrice |-> NoPrice, modelRatio |-> <<0, 1>>,
                  groupRatio |-> <<1, 1>>, completionRatio |-> <<1, 1>>],
     tokenUnlimited |-> TRUE, userQuota |-> 0, tokenQuota |-> 0]

InitCharge ==
    /\ InitRelay
    /\ cfg = IdleCfg
    /\ StreamIdle
    /\ RestIdle
    /\ calc \in [pc : {"usage"}, pricing : ChargePricings,
                  promptTokens : 0..MaxChargeTokens, completionTokens : 0..MaxChargeTokens,
                  quota : {-1}]

\* postConsumeQuota computes the quota of the usage it was handed.
ComputeCharge ==
    /\ calc.pc = "usage"
    /\ calc' = [calc EXCEPT !.pc = "charged",
                            !.quota = ConsumeQuota(calc.pricing, calc.promptTokens,
                                                   calc.completionTokens)]
    /\ UNCHANGED <<relayVars, streamVars, rest>>

NextCharge == ComputeCharge

SpecCharge == InitCharge /\ [][NextCharge]_vars

\* --------------------------------- TextHelper's preparation on its own

\* One request: its relay mode, its body, whether the channel's model mapping
\* parses, and what the tokenizer answers for it.
InitPrepare ==
    /\ InitRelay
    /\ cfg = IdleCfg
    /\ calc = NoCalc
    /\ StreamIdle
    /\ filt = NoFilt /\ plain = NoPlain /\ ctl = NoCtl /\ azure = NoAzure
    /\ prep \in [pc : {"call"}, RelayMode : RelayModes, textRequest : TextRequests,
                  mappingOk : BOOLEAN, tok : TokenizerOutcomes,
                  verr : {""}, promptTokens : {[tokens |-> 0, err |-> "", sensitiveTrigger |-> FALSE]},
                  out : {[err |-> NoErr, quota |-> 0]}]

\* TextHelper from its start to the call of preConsumeQuota: what validation
\* said, what getPromptTokens returned where it was called, and the outcome.
PrepareRequest ==
    /\ prep.pc = "call"
    /\ LET verr == getAndValidateTextRequest(prep.RelayMode, prep.textRequest)
           called == verr = "" /\ prep.mappingOk
       IN  prep' = [prep EXCEPT
                      !.pc = IF called THEN "counted" ELSE "rejected",
                      !.verr = verr,
                      !.promptTokens = IF called THEN getPromptTokens(prep.RelayMode, prep.tok) ELSE @,
                      !.out = TextHelperPrepare(prep.RelayMode, prep.textRequest,
                                                prep.mappingOk, prep.tok)]
    /\ UNCHANGED <<relayVars, calc, streamVars, filt, plain, ctl, azure>>

NextPrepare == PrepareRequest

SpecPrepare == InitPrepare /\ [][NextPrepare]_vars

\* ------------------------------------- the sensitive-word filter on its own

\* The sequences over S of length at most n.
SeqsUpTo(S, n) == UNION { [1..k -> S] : k \in 0..n }

\* Longest text given to the filter, in characters.
MaxTextLen == 4

\* The characters of a text: "A" is the upper case of "a".
Letters == {"a", "A", "b", "x"}

\* constant.SensitiveWords: no phrase, one phrase, one phrase in upper case,
\* two phrases, two phrases of which one ends the other.
WordLists ==
    { <<>>,
      << <<"a">> >>,
      << <<"A">> >>,
      << <<"a", "b">> >>,
      << <<"a">>, <<"b">> >>,
      << <<"b">>, <<"a", "b">> >> }

\* The mask "*###*".
Mask == <<"*", "#", "#", "#", "*">>

\* strings.ToLower.
ToLower(text) == [i \in 1..Len(text) |-> IF text[i] = "A" THEN "a" ELSE text[i]]

\* readRunes: the phrases in lower case.
readRunes(words) == [i \in 1..Len(words) |-> ToLower(words[i])]

\* s without its i-th element.
Without(s, i) == SubSeq(s, 1, i - 1) \o SubSeq(s, i + 1, Len(s))

RECURSIVE LongestFirst(_)
\* The words that end in one place come out longest first: the word of the
\* automaton's state, then those of its failure states.
LongestFirst(dict) ==
    IF dict = <<>> THEN <<>>
    ELSE LET i == CHOOSE i \in 1..Len(dict) : \A j \in 1..Len(dict) : Len(dict[j]) <= Len(dict[i])
         IN  <<dict[i]>> \o LongestFirst(Without(dict, i))

\* Whether word occurs in content ending with its character number end.
EndsAt(content, word, end) ==
    /\ Len(word) <= end
    /\ SubSeq(content, end - Len(word) + 1, end) = word

RECURSIVE TermsUpTo(_, _, _)
\* The matches that end at or before character number end, in the order the
\* automaton finds them: Pos is where the word begins, counted from 0.
TermsUpTo(content, dict, end) ==
    IF end = 0 THEN <<>>
    ELSE TermsUpTo(content, dict, end - 1) \o
         [k \in 1..Len(SelectSeq(dict, LAMBDA w : EndsAt(content, w, end))) |->
            [Pos |-> end - Len(SelectSeq(dict, LAMBDA w : EndsAt(content, w, end))[k]),
             Word |-> SelectSeq(dict, LAMBDA w : EndsAt(content, w, end))[k]]]

\* initAc and Machine.MultiPatternSearch: every match, or the first one only.
\* Build refuses an empty dictionary, initAc then returns nil and the search
\* on it panics.
MultiPatternSearch(content, words, returnImmediately) ==
    IF words = <<>> THEN [panic |-> TRUE, hits |-> <<>>]
    ELSE LET terms == TermsUpTo(content, LongestFirst(readRunes(words)), Len(content))
         IN  [panic |-> FALSE,
              hits |-> IF returnImmediately /\ terms # <<>> THEN <<terms[1]>> ELSE terms]

\* text = text[:pos] + "*###*" + text[pos+len(word):], which panics when the
\* text is shorter than pos+len(word).
ReplaceAt(text, hit) ==
    IF hit.Pos + Len(hit.Word) > Len(text) THEN [panic |-> TRUE, text |-> text]
    ELSE [panic |-> FALSE,
          text |-> SubSeq(text, 1, hit.Pos) \o Mask \o
                   SubSeq(text, hit.Pos + Len(hit.Word) + 1, Len(text))]

RECURSIVE ReplaceHits(_, _)
\* The loop over the hits: each replacement is made in the text the earlier
\* ones have left.
ReplaceHits(text, hits) ==
    IF hits = <<>> THEN [panic |-> FALSE, text |-> text]
    ELSE LET r == ReplaceAt(text, Head(hits))
         IN  IF r.panic THEN r ELSE ReplaceHits(r.text, Tail(hits))

\* The words of the hits, one per hit.
HitWords(hits) == [k \in 1..Len(hits) |-> hits[k].Word]

SensitiveWordReplace_NoEmptyCheck(text, words, returnImmediately) ==
    LET m == MultiPatternSearch(ToLower(text), words, returnImmediately)
        r == ReplaceHits(text, m.hits)
    IN  IF m.panic \/ r.panic THEN [panic |-> TRUE, hit |-> FALSE, words |-> <<>>, text |-> text]
        ELSE [panic |-> FALSE, hit |-> m.hits # <<>>, words |-> HitWords(m.hits), text |-> r.text]

\* SensitiveWordReplace with constant.SensitiveWords = words.
SensitiveWordReplace(text, words, returnImmediately) ==
    IF Len(words) = 0
    THEN [panic |-> FALSE, hit |-> FALSE, words |-> <<>>, text |-> text]
    ELSE LET m == MultiPatternSearch(ToLower(text), words, returnImmediately)
             r == ReplaceHits(text, m.hits)
         IN  IF m.panic \/ r.panic
             THEN [panic |-> TRUE, hit |-> FALSE, words |-> <<>>, text |-> text]
             ELSE [panic |-> FALSE, hit |-> m.hits # <<>>, words |-> HitWords(m.hits),
                   text |-> r.text]

\* SensitiveWordContains with constant.SensitiveWords = words.
SensitiveWordContains(text, words) ==
    IF Len(words) = 0
    THEN [panic |-> FALSE, hit |-> FALSE, words |-> <<>>]
    ELSE LET m == MultiPatternSearch(ToLower(text), words, FALSE)
         IN  [panic |-> m.panic, hit |-> m.hits # <<>>, words |-> HitWords(m.hits)]

\* One text, one phrase list, one value of returnImmediately.
InitFilter ==
    /\ InitRelay
    /\ cfg = IdleCfg
    /\ calc = NoCalc
    /\ StreamIdle
    /\ plain = NoPlain /\ ctl = NoCtl /\ azure = NoAzure /\ prep = NoPrep
    /\ filt \in [pc : {"call"}, text : SeqsUpTo(Letters, MaxTextLen), SensitiveWords : WordLists,
                  returnImmediately : BOOLEAN, out : {[panic |-> FALSE]}]

FilterReplace ==
    /\ filt.pc = "call"
    /\ filt' = [filt EXCEPT !.pc = "replaced",
                            !.out = SensitiveWordReplace(filt.text, filt.SensitiveWords,
                                                         filt.returnImmediately)]
    /\ UNCHANGED <<relayVars, calc, streamVars, plain, ctl, azure, prep>>

FilterContains ==
    /\ filt.pc = "call"
    /\ filt' = [filt EXCEPT !.pc = "contained",
                            !.out = SensitiveWordContains(filt.text, filt.SensitiveWords)]
    /\ UNCHANGED <<relayVars, calc, streamVars, plain, ctl, azure, prep>>

NextFilter ==
    \/ FilterReplace
    \/ FilterContains

SpecFilter == InitFilter /\ [][NextFilter]_vars

\* Longest text given to the filter when the phrases are long.
MaxLongLen == 7

\* A run of n times the character "a".
Run(n) == [i \in 1..n |-> "a"]

\* constant.SensitiveWords with phrases longer than the mask: one such
\* phrase, one that ends in a phrase as long as the mask, one beside a short
\* phrase; and a short phrase alone.
LongWordLists ==
    { << Run(Len(Mask) + 1) >>,
      << Run(Len(Mask) + 1), Run(Len(Mask)) >>,
      << <<"x">>, Run(Len(Mask) + 1) >>,
      << <<"a">> >> }

\* One text of the characters "a" and "x", one list of long phrases, one
\* value of returnImmediately.
InitLongPhrases ==
    /\ InitRelay
    /\ cfg = IdleCfg
    /\ calc = NoCalc
    /\ StreamIdle
    /\ plain = NoPlain /\ ctl = NoCtl /\ azure = NoAzure /\ prep = NoPrep
    /\ filt \in [pc : {"call"}, text : SeqsUpTo({"a", "x"}, MaxLongLen),
                  SensitiveWords : LongWordLists,
                  returnImmediately : BOOLEAN, out : {[panic |-> FALSE]}]

SpecLongPhrases == InitLongPhrases /\ [][NextFilter]_vars

\* ------------------------------------------ the streaming response on its own

\* Longest upstream body, in lines.
MaxLines == 3

\* Capacity of dataChan.
DataChanCap == 5

\* The lines an upstream body is made of. skipped: a line shorter than six
\* bytes or one that starts with neither "data: " nor "[DONE]"; data: a frame
\* "data: {...}" (json: whether its payload parses; sensitive: whether it
\* holds a sensitive word; cr: whether it ends in "\r"; text: what the
\* filter looks at, holding the phrase of StreamWords not at all, once or
\* twice); done: the terminator "data: [DONE]"; rawdone: the line "[DONE]".
LineKinds ==
    { [kind |-> "skipped", json |-> FALSE, sensitive |-> FALSE, cr |-> FALSE, text |-> <<"x">>],
      [kind |-> "data",    json |-> TRUE,  sensitive |-> FALSE, cr |-> FALSE, text |-> <<"x">>],
      [kind |-> "data",    json |-> TRUE,  sensitive |-> FALSE, cr |-> TRUE,  text |-> <<"x">>],
      [kind |-> "data",    json |-> TRUE,  sensitive |-> TRUE,  cr |-> FALSE, text |-> <<"a">>],
      [kind |-> "data",    json |-> TRUE,  sensitive |-> TRUE,  cr |-> FALSE, text |-> <<"a", "a">>],
      [kind |-> "data",    json |-> FALSE, sensitive |-> FALSE, cr |-> FALSE, text |-> <<"x">>],
      [kind |-> "done",    json |-> FALSE, sensitive |-> FALSE, cr |-> FALSE, text |-> <<"x">>],
      [kind |-> "rawdone", json |-> FALSE, sensitive |-> FALSE, cr |-> FALSE, text |-> <<"x">>] }

\* constant.SensitiveWords while a response is streamed.
StreamWords == << <<"a">> >>

\* The relay modes a response is parsed for; embeddings stands for the modes
\* the stream handler's switch does not name.
StreamRelayModes == {"chat_completions", "completions", "embeddings"}

\* The body of a response that is not an event stream: one JSON document.
PlainBodies ==
    SeqsUpTo({[kind |-> "skipped", json |-> FALSE, sensitive |-> FALSE, cr |-> FALSE, text |-> <<"x">>]}, 1)

\* The producer's frame for line n of the body, after the sensitive filter:
\* its text is what the filter returned, redacted when the filter reported a
\* match in it.
FrameOf(n, line, checkSensitive) ==
    LET f == SensitiveWordReplace(line.text, StreamWords, FALSE)
    IN  [n |-> n, kind |-> line.kind, json |-> line.json, cr |-> line.cr,
         redacted |-> checkSensitive /\ f.hit,
         text |-> IF checkSensitive THEN f.text ELSE line.text]

\* The frame the producer injects after a sensitive match: "data: [DONE]".
InjectedDone ==
    [n |-> 0, kind |-> "done", json |-> FALSE, cr |-> FALSE, redacted |-> FALSE, text |-> <<"x">>]

\* Whether the producer keeps a line: at least six bytes that start with
\* "data: " or "[DONE]".
Retained(line) == line.kind # "skipped"

\* Whether the rest of a frame after its first six bytes starts with "[DONE]".
IsDonePayload(frame) == frame.kind = "done"

\* The consumer's rendering of a frame: a trailing "\r" is cut off.
Render(frame) == [frame EXCEPT !.cr = FALSE]

ChanRecv_Newest(ch) == ch[Len(ch)]

\* Receiving from a channel takes its oldest element.
ChanRecv(ch) == Head(ch)

\* json.Unmarshal of "[" + strings.Join(streamItems, ",") + "]": every item
\* has to parse; the empty item of a "[DONE]" line parses only when it is the
\* only one, the text then being "[]".
JsonArrayOk(items) ==
    \/ Len(items) = 1 /\ items[1].kind = "rawdone"
    \/ \A i \in 1..Len(items) : items[i].kind = "data" /\ items[i].json

ChoiceContent_AlwaysDelta(frame, relayMode) ==
    << [field |-> "delta", n |-> frame.n, redacted |-> frame.redacted] >>

\* What a parsed frame contributes to the text: its choice's delta content in
\* chat mode, its choice's text in completions mode.
ChoiceContent(frame, relayMode) ==
    IF frame.kind # "data" THEN <<>>
    ELSE IF relayMode = "chat_completions"
    THEN << [field |-> "delta", n |-> frame.n, redacted |-> frame.redacted] >>
    ELSE << [field |-> "text", n |-> frame.n, redacted |-> frame.redacted] >>

RECURSIVE ResponseText(_, _)
\* The text the producer builds from the parsed items, in their order.
ResponseText(items, relayMode) ==
    IF items = <<>> THEN <<>>
    ELSE ChoiceContent(Head(items), relayMode) \o ResponseText(Tail(items), relayMode)

IsStreamAfterResponse_ContentTypeOnly(isStream, eventStream) == eventStream

\* relayInfo.IsStream after the response's headers are in.
IsStreamAfterResponse(isStream, eventStream) == isStream \/ eventStream

\* One request with its upstream answer: whether the client asked for a
\* stream, whether the answer is an event stream, the relay mode, the
\* sensitive-word settings, and the lines of the answer's body, one of bodies.
\* The client is connected and the body open.
InitStreamWith(bodies) ==
    /\ InitRelay
    /\ cfg = IdleCfg
    /\ calc = NoCalc
    /\ RestIdle
    /\ streamCfg \in [Stream : BOOLEAN, eventStream : BOOLEAN, RelayMode : StreamRelayModes,
                      checkSensitive : BOOLEAN, StopOnSensitiveEnabled : BOOLEAN,
                      lines : bodies]
    /\ ~streamCfg.eventStream => streamCfg.lines \in PlainBodies
    /\ ~streamCfg.checkSensitive => ~streamCfg.StopOnSensitiveEnabled
    /\ IsStream = FALSE
    /\ scanner = <<>>
    /\ dataChan = <<>>
    /\ stopChan = <<>>
    /\ clientFrames = <<>>
    /\ streamItems = <<>>
    /\ responseText = <<>>
    /\ spc = [main |-> "validate", producer |-> "idle", handler |-> "none", err |-> "", text |-> <<>>,
              gone |-> FALSE, bodyClosed |-> FALSE]

\* The answers of at most MaxLines lines.
InitStream == InitStreamWith(SeqsUpTo(LineKinds, MaxLines))

\* getAndValidateTextRequest: relayInfo.IsStream = textRequest.Stream.
SetIsStream ==
    /\ spc.main = "validate"
    /\ IsStream' = streamCfg.Stream
    /\ spc' = [spc EXCEPT !.main = "do_request"]
    /\ UNCHANGED <<relayVars, calc, rest, streamCfg, scanner, dataChan, stopChan, clientFrames, streamItems, responseText>>

\* TextHelper after DoRequest: IsStream is derived again from the Content-Type.
DeriveIsStream ==
    /\ spc.main = "do_request"
    /\ IsStream' = IsStreamAfterResponse(IsStream, streamCfg.eventStream)
    /\ spc' = [spc EXCEPT !.main = "do_response"]
    /\ UNCHANGED <<relayVars, calc, rest, streamCfg, scanner, dataChan, stopChan, clientFrames, streamItems, responseText>>

\* Adaptor.DoResponse: OpenaiStreamHandler, which starts the producer and
\* writes to the client itself, or OpenaiHandler, which is done in one go.
\* c.Stream looks at the client's connection before each step of the write
\* loop and ends the loop when the client is gone.
AdaptorDoResponse ==
    /\ spc.main = "do_response"
    /\ IF IsStream
       THEN /\ spc' = [spc EXCEPT !.main = IF spc.gone THEN "close_body" ELSE "stream",
                                  !.producer = "start", !.handler = "stream"]
            /\ scanner' = [i \in 1..Len(streamCfg.lines) |->
                             FrameOf(i, streamCfg.lines[i], streamCfg.checkSensitive)]
       ELSE /\ spc' = [spc EXCEPT !.main = "returned", !.handler = "nonstream"]
            /\ UNCHANGED scanner
    /\ UNCHANGED <<relayVars, calc, rest, streamCfg, IsStream, dataChan, stopChan, clientFrames, streamItems, responseText>>

\* The goroutine begins: wg.Add(1), defer wg.Done().
ProducerStart ==
    /\ spc.producer = "start"
    /\ spc' = [spc EXCEPT !.producer = "scan"]
    /\ UNCHANGED <<relayVars, calc, rest, streamCfg, IsStream, scanner, dataChan, stopChan, clientFrames,
                   streamItems, responseText>>

\* The producer reads the next line: it drops it, or pushes it onto dataChan
\* (waiting while the channel is full) and keeps its payload unless that is
\* the terminator; after a sensitive match under the stop policy it goes on
\* to inject the terminator. The handler's return closes dataChan: there is
\* no pushing onto it from then on.
ProducerScan ==
    /\ spc.producer = "scan"
    /\ scanner # <<>>
    /\ LET frame == Head(scanner)
       IN  IF ~Retained(frame)
           THEN UNCHANGED <<dataChan, streamItems, spc>>
           ELSE /\ spc.main # "returned"
                /\ Len(dataChan) < DataChanCap
                /\ dataChan' = Append(dataChan, frame)
                /\ streamItems' = IF IsDonePayload(frame) THEN streamItems
                                  ELSE Append(streamItems, frame)
                /\ spc' = IF frame.redacted /\ streamCfg.StopOnSensitiveEnabled
                          THEN [spc EXCEPT !.producer = "inject"]
                          ELSE spc
    /\ scanner' = Tail(scanner)
    /\ UNCHANGED <<relayVars, calc, rest, streamCfg, IsStream, stopChan, clientFrames, responseText>>

\* The producer pushes "data: [DONE]" and leaves its loop.
ProducerInject ==
    /\ spc.producer = "inject"
    /\ spc.main # "returned"
    /\ Len(dataChan) < DataChanCap
    /\ dataChan' = Append(dataChan, InjectedDone)
    /\ spc' = [spc EXCEPT !.producer = "parse"]
    /\ UNCHANGED <<relayVars, calc, rest, streamCfg, IsStream, scanner, stopChan, clientFrames, streamItems, responseText>>

\* The producer, its loop over, parses what it kept: in chat and completions
\* mode a parse error ends the goroutine at once, the text left empty.
ProducerParse ==
    /\ \/ spc.producer = "parse"
       \/ spc.producer = "scan" /\ scanner = <<>>
    /\ IF streamCfg.RelayMode \in {"chat_completions", "completions"}
       THEN IF JsonArrayOk(streamItems)
            THEN /\ responseText' = ResponseText(streamItems, streamCfg.RelayMode)
                 /\ spc' = [spc EXCEPT !.producer = "drain"]
            ELSE /\ spc' = [spc EXCEPT !.producer = "done"]
                 /\ UNCHANGED responseText
       ELSE /\ spc' = [spc EXCEPT !.producer = "drain"]
            /\ UNCHANGED responseText
    /\ UNCHANGED <<relayVars, calc, rest, streamCfg, IsStream, scanner, dataChan, stopChan, clientFrames, streamItems>>

\* if len(dataChan) > 0 { time.Sleep(2 * time.Second) }
ProducerDrain ==
    /\ spc.producer = "drain"
    /\ spc' = [spc EXCEPT !.producer = IF Len(dataChan) > 0 THEN "sleep" ELSE "send_stop"]
    /\ UNCHANGED <<relayVars, calc, rest, streamCfg, IsStream, scanner, dataChan, stopChan, clientFrames,
                   streamItems, responseText>>

\* The two seconds are over, whatever the consumer has done meanwhile.
ProducerWake ==
    /\ spc.producer = "sleep"
    /\ spc' = [spc EXCEPT !.producer = "send_stop"]
    /\ UNCHANGED <<relayVars, calc, rest, streamCfg, IsStream, scanner, dataChan, stopChan, clientFrames,
                   streamItems, responseText>>

\* common.SafeSend(stopChan, true), which sends nothing once the handler's
\* return has closed stopChan; the goroutine ends (wg.Done).
ProducerSendStop ==
    /\ spc.producer = "send_stop"
    /\ stopChan' = IF spc.main = "returned" THEN stopChan ELSE Append(stopChan, TRUE)
    /\ spc' = [spc EXCEPT !.producer = "done"]
    /\ UNCHANGED <<relayVars, calc, rest, streamCfg, IsStream, scanner, dataChan, clientFrames, streamItems, responseText>>

\* The select of the write loop, case data := <-dataChan: render the frame.
\* The step over, c.Stream ends the loop when the client is gone.
ConsumerWrite ==
    /\ spc.main = "stream"
    /\ dataChan # <<>>
    /\ clientFrames' = Append(clientFrames, Render(ChanRecv(dataChan)))
    /\ dataChan' = Tail(dataChan)
    /\ spc' = [spc EXCEPT !.main = IF spc.gone THEN "close_body" ELSE "stream"]
    /\ UNCHANGED <<relayVars, calc, rest, streamCfg, IsStream, scanner, stopChan, streamItems, responseText>>

\* The select of the write loop, case <-stopChan: the loop ends. When both
\* channels are ready the select takes either case.
ConsumerStop ==
    /\ spc.main = "stream"
    /\ stopChan # <<>>
    /\ stopChan' = Tail(stopChan)
    /\ spc' = [spc EXCEPT !.main = "close_body"]
    /\ UNCHANGED <<relayVars, calc, rest, streamCfg, IsStream, scanner, dataChan, clientFrames, streamItems, responseText>>

\* resp.Body.Close(): its failure ends the handler with the error and no text.
CloseBody ==
    /\ spc.main = "close_body"
    /\ \E ok \in BOOLEAN :
         spc' = IF ok THEN [spc EXCEPT !.main = "wait", !.bodyClosed = TRUE]
                ELSE [spc EXCEPT !.main = "returned", !.err = "close_response_body_failed"]
    /\ UNCHANGED <<relayVars, calc, rest, streamCfg, IsStream, scanner, dataChan, stopChan, clientFrames,
                   streamItems, responseText>>

\* wg.Wait(), then return nil, responseTextBuilder.String(). The counter is
\* zero before the goroutine's wg.Add(1) and after its wg.Done().
WaitAndReturn ==
    /\ spc.main = "wait"
    /\ spc.producer \in {"start", "done"}
    /\ spc' = [spc EXCEPT !.main = "returned", !.text = responseText]
    /\ UNCHANGED <<relayVars, calc, rest, streamCfg, IsStream, scanner, dataChan, stopChan, clientFrames,
                   streamItems, responseText>>

NextStream ==
    \/ SetIsStream
    \/ DeriveIsStream
    \/ AdaptorDoResponse
    \/ ProducerStart
    \/ ProducerScan
    \/ ProducerInject
    \/ ProducerParse
    \/ ProducerDrain
    \/ ProducerWake
    \/ ProducerSendStop
    \/ ConsumerWrite
    \/ ConsumerStop
    \/ CloseBody
    \/ WaitAndReturn

SpecStream == InitStream /\ [][NextStream]_vars

\* ---------------------------------- the buffered response handler on its own

\* Most choices in a response.
MaxChoices == 2

\* The texts a choice's message may hold.
ChoiceTexts == { <<"x">>, <<"a">>, <<"a", "a">>, <<"A", "x">> }

\* How far the handler gets before it scans the choices: a failure to read
\* or close the body, to parse it, an error payload in it, or a response.
BodyOutcomes ==
    { "read_response_body_failed", "close_response_body_failed",
      "unmarshal_response_body_failed", "upstream_error", "" }

\* textResponse.Choices after the loop over it. The loop's variable choice is
\* a copy of the element when Choices holds the choices themselves, so that
\* choice.Message = msg changes the copy alone; it changes the response when
\* Choices holds pointers.
RangeChoices(choices, words, checkSensitive, rangeCopies) ==
    [i \in 1..Len(choices) |->
       LET f == SensitiveWordReplace(choices[i], words, FALSE)
       IN  IF checkSensitive /\ f.hit /\ ~rangeCopies THEN f.text ELSE choices[i]]

\* The words of the matching choices, duplicates removed.
TriggeredWords(choices, words) ==
    UNION { { SensitiveWordReplace(choices[i], words, FALSE).words[k] :
                k \in 1..Len(SensitiveWordReplace(choices[i], words, FALSE).words) } :
            i \in 1..Len(choices) }

\* What the handler writes to the client when it sends the response: the
\* upstream headers, the upstream status, then the body, which io.Copy may
\* fail to deliver.
WriteResponse(copyOk) ==
    IF copyOk THEN <<"header", "status", "body">> ELSE <<"header", "status">>

\* One upstream answer with its choices, the settings of the sensitive check,
\* whether the answer carries usage, what dto.TextResponse.Choices holds, and
\* whether the client takes the body.
InitPlain ==
    /\ InitRelay
    /\ cfg = IdleCfg
    /\ calc = NoCalc
    /\ StreamIdle
    /\ filt = NoFilt /\ ctl = NoCtl /\ azure = NoAzure /\ prep = NoPrep
    /\ plain \in [pc : {"call"}, outcome : BodyOutcomes, Choices : SeqsUpTo(ChoiceTexts, MaxChoices),
                   SensitiveWords : WordLists, checkSensitive : BOOLEAN,
                   StopOnSensitiveEnabled : BOOLEAN, TotalTokens : {0, 1}, rangeCopies : BOOLEAN,
                   copyOk : BOOLEAN, wire : {<<>>},
                   written : {FALSE}, body : {<<>>}, err : {""}, sensitiveWords : {{}}]
    /\ plain.outcome # "" => plain.Choices = <<>> /\ plain.copyOk
    /\ plain.StopOnSensitiveEnabled => plain.copyOk

\* OpenaiHandler.
OpenaiHandler ==
    /\ plain.pc = "call"
    /\ IF plain.outcome # ""
       THEN plain' = [plain EXCEPT !.pc = "returned", !.err = plain.outcome]
       ELSE LET scans == plain.TotalTokens = 0 \/ plain.checkSensitive
                choices == IF scans
                           THEN RangeChoices(plain.Choices, plain.SensitiveWords,
                                             plain.checkSensitive, plain.rangeCopies)
                           ELSE plain.Choices
                words == IF scans /\ plain.checkSensitive
                         THEN TriggeredWords(plain.Choices, plain.SensitiveWords)
                         ELSE {}
                sends == ~plain.StopOnSensitiveEnabled
            IN  plain' = [plain EXCEPT !.pc = "returned",
                                       !.wire = IF sends THEN WriteResponse(plain.copyOk) ELSE <<>>,
                                       !.written = sends /\ plain.copyOk,
                                       !.body = IF sends /\ plain.copyOk THEN choices ELSE <<>>,
                                       !.sensitiveWords = IF sends /\ ~plain.copyOk THEN {} ELSE words,
                                       !.err = IF sends /\ ~plain.copyOk THEN "copy_response_body_failed"
                                               ELSE IF words # {} THEN "sensitive_words_detected"
                                               ELSE ""]
    /\ UNCHANGED <<relayVars, calc, streamVars, filt, ctl, azure, prep>>

NextPlain == OpenaiHandler

SpecPlain == InitPlain /\ [][NextPlain]_vars

\* ------------------------------------------- controller.Relay and its retries

\* Largest configured common.RetryTimes.
MaxRetryTimes == 2

\* Largest retry parameter a client sends of its own.
MaxRetryParam == 3

\* The decimal digits.
DigitChars == <<"0", "1", "2", "3", "4", "5", "6", "7", "8", "9">>

RECURSIVE Itoa(_)
\* "%d" of fmt.Sprintf.
Itoa(n) ==
    IF n < 0 THEN <<"-">> \o Itoa(-n)
    ELSE IF n < 10 THEN <<DigitChars[n + 1]>>
    ELSE Itoa(n \div 10) \o <<DigitChars[(n % 10) + 1]>>

\* Whether s is one decimal digit or more.
IsDigits(s) == s # <<>> /\ \A i \in 1..Len(s) : \E d \in 1..10 : s[i] = DigitChars[d]

RECURSIVE DigitsValue(_)
\* The number a string of digits denotes.
DigitsValue(s) ==
    IF s = <<>> THEN 0
    ELSE DigitsValue(SubSeq(s, 1, Len(s) - 1)) * 10
         + (CHOOSE d \in 0..9 : s[Len(s)] = DigitChars[d + 1])

\* retryTimes, _ := strconv.Atoi(s): the number, and 0 for what is none.
Atoi(s) ==
    IF IsDigits(s) THEN DigitsValue(s)
    ELSE IF s # <<>> /\ s[1] = "-" /\ IsDigits(Tail(s)) THEN 0 - DigitsValue(Tail(s))
    ELSE IF s # <<>> /\ s[1] = "+" /\ IsDigits(Tail(s)) THEN DigitsValue(Tail(s))
    ELSE 0

\* What c.Query("retry") gives for a client's first request: nothing, a
\* number, or something that is no number.
RetryParams == { <<>>, <<"x">> } \cup { Itoa(n) : n \in (0 - 1)..MaxRetryParam }

\* What the relay helper returns: nil, an error that leaves the channel
\* alone, or one that impairs it.
RelayErrors ==
    { [failed |-> FALSE, StatusCode |-> 200, code |-> ""],
      [failed |-> TRUE,  StatusCode |-> 500, code |-> "do_request_failed"],
      [failed |-> TRUE,  StatusCode |-> 401, code |-> "invalid_api_key"] }

\* service.ShouldDisableChannel: the status codes and error codes that speak
\* of the channel and not of the request.
ShouldDisableChannel(err) == err.StatusCode = 401 \/ err.code = "invalid_api_key"

\* The retry counter of a request: the parameter, or common.RetryTimes when
\* the parameter is absent or empty.
RetryTimesOf(retryTimesStr, RetryTimes) ==
    IF retryTimesStr = <<>> THEN RetryTimes ELSE Atoi(retryTimesStr)

NextRetry_Same(retryTimes) == retryTimes

\* The counter a redirect carries.
NextRetry(retryTimes) == retryTimes - 1

\* Relay's answer to a failed relay: the redirect or the error.
AnswerFailure(err, retryTimes) ==
    IF retryTimes > 0
    THEN [kind |-> "redirect", status |-> 307, retry |-> Itoa(NextRetry(retryTimes)), errorBody |-> FALSE]
    ELSE [kind |-> "error", status |-> err.StatusCode, retry |-> <<>>, errorBody |-> TRUE]

DisablesChannel_IgnoresAutoBan(err, autoBan) == err.failed /\ ShouldDisableChannel(err)

\* Whether Relay calls service.DisableChannel.
DisablesChannel(err, autoBan) == err.failed /\ ShouldDisableChannel(err) /\ autoBan

\* A client's first request to a channel that is enabled.
InitCtl ==
    /\ InitRelay
    /\ cfg = IdleCfg
    /\ calc = NoCalc
    /\ StreamIdle
    /\ filt = NoFilt /\ plain = NoPlain /\ azure = NoAzure /\ prep = NoPrep
    /\ ctl \in [pc : {"request"}, query : RetryParams, first : RetryParams,
                 RetryTimes : 0..MaxRetryTimes, autoBan : BOOLEAN, enabled : {TRUE},
                 wasEnabled : {TRUE}, redirects : {0}, attempts : {0},
                 err : {[failed |-> FALSE, StatusCode |-> 200, code |-> ""]},
                 answer : {[kind |-> "none", status |-> 0, retry |-> <<>>, errorBody |-> FALSE]},
                 disabled : {FALSE}]
    /\ ctl.first = ctl.query

\* controller.Relay on one request.
Relay ==
    /\ ctl.pc = "request"
    /\ \E err \in RelayErrors :
         LET retryTimes == RetryTimesOf(ctl.query, ctl.RetryTimes)
             answer == IF err.failed THEN AnswerFailure(err, retryTimes)
                       ELSE [kind |-> "relayed", status |-> 200, retry |-> <<>>, errorBody |-> FALSE]
             disables == DisablesChannel(err, ctl.autoBan)
         IN  ctl' = [ctl EXCEPT !.pc = "answered",
                                !.attempts = @ + 1,
                                !.err = err,
                                !.answer = answer,
                                !.redirects = IF answer.kind = "redirect" THEN @ + 1 ELSE @,
                                !.disabled = disables,
                                !.wasEnabled = ctl.enabled,
                                !.enabled = IF disables THEN FALSE ELSE @]
    /\ UNCHANGED <<relayVars, calc, streamVars, filt, plain, azure, prep>>

\* The client follows the redirect: the same path with the retry parameter
\* of the Location.
ClientFollowsRedirect ==
    /\ ctl.pc = "answered"
    /\ ctl.answer.kind = "redirect"
    /\ ctl' = [ctl EXCEPT !.pc = "request", !.query = ctl.answer.retry]
    /\ UNCHANGED <<relayVars, calc, streamVars, filt, plain, azure, prep>>

NextCtl ==
    \/ Relay
    \/ ClientFollowsRedirect

SpecCtl == InitCtl /\ [][NextCtl]_vars

\* --------------------------------------------- Adaptor.GetRequestURL on its own

\* Most parts an upstream model name is put together from.
MaxNameParts == 3

\* Strings are sequences of characters. "gpt-4-32k":
Gpt432k == <<"g", "p", "t", "-", "4", "-", "3", "2", "k">>

\* The date suffixes "-0301", "-0314" and "-0613", in the order the code
\* looks for them.
DateSuffixes ==
    << <<"-", "0", "3", "0", "1">>, <<"-", "0", "3", "1", "4">>, <<"-", "0", "6", "1", "3">> >>

RECURSIVE Join(_)
\* The parts written one after another.
Join(parts) == IF parts = <<>> THEN <<>> ELSE Head(parts) \o Join(Tail(parts))

\* The upstream model names: a model's name, dots and date suffixes in any
\* order.
ModelNames ==
    { Join(parts) :
        parts \in SeqsUpTo({Gpt432k, <<".">>} \cup {DateSuffixes[i] : i \in 1..3}, MaxNameParts) }

\* The request paths: with and without the prefix "/v1/", with no query
\* string, with one, with one that holds a second question mark.
RequestPaths ==
    { prefix \o <<"c">> \o query :
        prefix \in { <<"/", "v", "1", "/">>, <<"/">> },
        query \in { <<>>, <<"?", "r">>, <<"?", "r", "?", "r">> } }

\* The API versions of a channel.
ApiVersions == { <<"2">>, <<>> }

RECURSIVE BeforeFirst(_, _)
\* strings.Split(s, sep)[0] for a separator of one character.
BeforeFirst(s, sep) ==
    IF s = <<>> \/ Head(s) = sep THEN <<>> ELSE <<Head(s)>> \o BeforeFirst(Tail(s), sep)

\* strings.Replace(s, old, "", -1) for one character.
RemoveAll(s, old) == SelectSeq(s, LAMBDA ch : ch # old)

\* strings.HasPrefix and strings.TrimPrefix.
HasPrefix(s, prefix) == Len(prefix) <= Len(s) /\ SubSeq(s, 1, Len(prefix)) = prefix
TrimPrefix(s, prefix) == IF HasPrefix(s, prefix) THEN SubSeq(s, Len(prefix) + 1, Len(s)) ELSE s

\* strings.HasSuffix and strings.TrimSuffix.
HasSuffix(s, suffix) ==
    Len(suffix) <= Len(s) /\ SubSeq(s, Len(s) - Len(suffix) + 1, Len(s)) = suffix
TrimSuffix(s, suffix) == IF HasSuffix(s, suffix) THEN SubSeq(s, 1, Len(s) - Len(suffix)) ELSE s

DeploymentOf_KeepsDots(UpstreamModelName) ==
    TrimSuffix(TrimSuffix(TrimSuffix(UpstreamModelName,
                                     DateSuffixes[1]), DateSuffixes[2]), DateSuffixes[3])

\* model_: the dots taken out, then the three suffixes cut off one after
\* another.
DeploymentOf(UpstreamModelName) ==
    TrimSuffix(TrimSuffix(TrimSuffix(RemoveAll(UpstreamModelName, "."),
                                     DateSuffixes[1]), DateSuffixes[2]), DateSuffixes[3])

\* "?api-version=" and "/openai/deployments/", each as one character.
ApiVersionParam == <<"?api-version=">>
DeploymentsPath == <<"/openai/deployments/">>

\* The path GetRequestURL hands to relaycommon.GetFullRequestURL.
GetRequestURL(info) ==
    IF info.ChannelType = "azure"
    THEN LET requestURL == BeforeFirst(info.RequestURLPath, "?") \o ApiVersionParam \o info.ApiVersion
             task == TrimPrefix(requestURL, <<"/", "v", "1", "/">>)
         IN  DeploymentsPath \o DeploymentOf(info.UpstreamModelName) \o <<"/">> \o task
    ELSE info.RequestURLPath

InitAzure ==
    /\ InitRelay
    /\ cfg = IdleCfg
    /\ calc = NoCalc
    /\ StreamIdle
    /\ filt = NoFilt /\ plain = NoPlain /\ ctl = NoCtl /\ prep = NoPrep
    /\ azure \in [pc : {"call"}, ChannelType : {"azure", "openai"}, RequestURLPath : RequestPaths,
                   ApiVersion : ApiVersions, UpstreamModelName : ModelNames, url : {<<>>}]

BuildRequestURL ==
    /\ azure.pc = "call"
    /\ azure' = [azure EXCEPT !.pc = "built", !.url = GetRequestURL(azure)]
    /\ UNCHANGED <<relayVars, calc, streamVars, filt, plain, ctl, prep>>

NextAzure == BuildRequestURL

SpecAzure == InitAzure /\ [][NextAzure]_vars

\* ------------------------------------- the client leaves during the streaming

\* Longest body of mixed lines when the client may leave.
MaxCancelLines == 1

\* How many frames more than dataChan holds a burst of frames has at most.
MaxBurst == 1

\* Bodies of more frames than dataChan holds.
LongBodies ==
    { [i \in 1..k |-> [kind |-> "data", json |-> TRUE, sensitive |-> FALSE, cr |-> FALSE,
                        text |-> <<"x">>]] :
        k \in (DataChanCap + 1)..(DataChanCap + MaxBurst) }

InitCancel == InitStreamWith(SeqsUpTo(LineKinds, MaxCancelLines) \cup LongBodies)

\* The client closes its connection, before the handler runs or while the
\* write loop waits in a step.
ClientDisconnects ==
    /\ spc.main \in {"do_response", "stream"}
    /\ ~spc.gone
    /\ spc' = [spc EXCEPT !.gone = TRUE]
    /\ UNCHANGED <<relayVars, calc, rest, streamCfg, IsStream, scanner, dataChan, stopChan, clientFrames,
                   streamItems, responseText>>

\* scanner.Scan() on the closed body: it has no further line unless the line
\* was read into the scanner's buffer before the body was closed.
ProducerScanFails ==
    /\ spc.producer = "scan"
    /\ spc.bodyClosed
    /\ scanner # <<>>
    /\ scanner' = <<>>
    /\ UNCHANGED <<relayVars, calc, rest, streamCfg, IsStream, dataChan, stopChan, clientFrames,
                   streamItems, responseText, spc>>

\* dataChan <- data after the handler's deferred close(dataChan): the send on
\* a closed channel panics.
ProducerPanics ==
    /\ spc.main = "returned"
    /\ \/ spc.producer = "scan" /\ scanner # <<>> /\ Retained(Head(scanner))
       \/ spc.producer = "inject"
    /\ spc' = [spc EXCEPT !.producer = "panic"]
    /\ UNCHANGED <<relayVars, calc, rest, streamCfg, IsStream, scanner, dataChan, stopChan, clientFrames,
                   streamItems, responseText>>

NextCancel ==
    \/ SetIsStream
    \/ DeriveIsStream
    \/ AdaptorDoResponse
    \/ ProducerStart
    \/ ProducerScan
    \/ ProducerInject
    \/ ProducerParse
    \/ ProducerDrain
    \/ ProducerWake
    \/ ProducerSendStop
    \/ ConsumerWrite
    \/ ConsumerStop
    \/ CloseBody
    \/ WaitAndReturn
    \/ ClientDisconnects
    \/ ProducerScanFails
    \/ ProducerPanics

SpecCancel == InitCancel /\ [][NextCancel]_vars

\* Every step of the handler and of the producer that can be taken is taken
\* in the end. When the client leaves and which lines the scanner had
\* buffered when the body was closed is not the program's to decide.
FairCancel ==
    /\ SpecCancel
    /\ WF_vars(SetIsStream) /\ WF_vars(DeriveIsStream) /\ WF_vars(AdaptorDoResponse)
    /\ WF_vars(ProducerStart) /\ WF_vars(ProducerScan) /\ WF_vars(ProducerInject)
    /\ WF_vars(ProducerParse) /\ WF_vars(ProducerDrain) /\ WF_vars(ProducerWake)
    /\ WF_vars(ProducerSendStop) /\ WF_vars(ConsumerWrite) /\ WF_vars(ConsumerStop)
    /\ WF_vars(CloseBody) /\ WF_vars(WaitAndReturn) /\ WF_vars(ProducerPanics)


\* ------------------------------------------------------------------ claims

\* No other request has touched the ledger: the balances are what request r
\* alone made of the initial ones.
Alone(r) == \A s \in Reqs \ {r} : rq[s].pc = "start"

Done(r) == rq[r].pc = "done"

\* preConsumeQuota returned without error (its reserved amount may be 0).
Reserved(r) == hist[r].reserved >= 0

\* The return goroutine of r, if one was started, has finished.
ReturnCompleted(r) == hist[r].nReturn >= 1 /\ returnGo[r] = 0

\* C1: a request's reservation is reconciled at most once: TextHelper never
\* calls both returnPreConsumedQuota and postConsumeQuota, nor either twice.
C1_ReconciledAtMostOnce ==
    \A r \in Reqs : hist[r].nReturn + hist[r].nPost <= 1

\* One request with a positive reservation was settled, another one with a
\* positive reservation had it returned.
C1_Witness ==
    \E r, s \in Reqs :
        /\ Done(r) /\ hist[r].reserved > 0 /\ hist[r].nPost = 1
        /\ Done(s) /\ hist[s].reserved > 0 /\ hist[s].nReturn = 1 /\ returnGo[s] = 0

\* C2: whenever TextHelper returns an error after a reservation > 0 and
\* before any settlement, returnPreConsumedQuota was called with the reserved
\* amount.
C2_ErrorAfterReservationReturnsIt ==
    \A r \in Reqs :
        (Done(r) /\ rq[r].err # NoErr /\ hist[r].reserved > 0 /\ hist[r].nPost = 0)
            => (hist[r].nReturn = 1 /\ hist[r].returnArg = hist[r].reserved)

\* C3: a settlement with zero total tokens and a reservation > 0 still calls
\* PostConsumeTokenQuota, with quotaDelta = 0 - reservedAmount, so that the
\* reserved funds are back.
C3_ZeroUsageStillReconciled ==
    \A r \in Reqs :
        (hist[r].nPost >= 1 /\ hist[r].totalTokens = 0 /\ hist[r].reserved > 0)
            => /\ hist[r].settleCalls = << <<0 - hist[r].reserved, hist[r].reserved>> >>
               /\ hist[r].dbDebit = 0
               /\ hist[r].tokenDebit = 0

\* The consume-log entries of request r.
LogEntries(r) == { i \in 1..Len(consumeLog) : consumeLog[i].req = r }

\* C4: a settlement with zero total tokens charges 0 under ratio pricing and
\* under a fixed price, and its consume-log entry records quota 0.
C4_ZeroUsageChargesZero ==
    \A r \in Reqs :
        (hist[r].nPost >= 1 /\ hist[r].totalTokens = 0)
            => /\ hist[r].charge = 0
               /\ LogEntries(r) # {}
               /\ \A i \in LogEntries(r) : consumeLog[i].quota = 0 /\ consumeLog[i].tokens = 0

\* A zero-token settlement under a fixed price, whose price alone is > 0.
C4_Witness ==
    \E r \in Reqs :
        /\ hist[r].nPost = 1 /\ hist[r].totalTokens = 0
        /\ cfg.pricing.modelPrice # NoPrice
        /\ QuotaBeforeZeroCheck(cfg.pricing, 0, 0) > 0

\* C5: a settlement with nonzero total tokens calls PostConsumeTokenQuota
\* exactly once, with quotaDelta = charge - reservedAmount, and reservation
\* and settlement together have debited exactly the charge.
C5_SettlementDebitsCharge ==
    \A r \in Reqs :
        (hist[r].nPost >= 1 /\ hist[r].totalTokens > 0)
            => /\ hist[r].settleCalls =
                      << <<hist[r].charge - hist[r].reserved, hist[r].reserved>> >>
               /\ hist[r].dbDebit = hist[r].charge
               /\ hist[r].tokenDebit = TokenDebit(hist[r].charge)

\* A settlement that charges less than was reserved: a refund.
C5_Witness ==
    \E r \in Reqs :
        /\ hist[r].nPost = 1 /\ hist[r].totalTokens > 0
        /\ hist[r].reserved > hist[r].charge
        /\ ~cfg.tokenUnlimited

\* A settlement after a skipped reservation: the whole charge is the delta.
C5_SkippedReservationReached ==
    \E r \in Reqs :
        /\ hist[r].nPost = 1 /\ hist[r].totalTokens > 0
        /\ hist[r].requested > 0 /\ hist[r].reserved = 0 /\ hist[r].charge > 0

\* C6: round trip: after a successful preConsumeQuota, a failure before
\* billing and the completed return, the cached account balance and the
\* credential balance are those before preConsumeQuota.
C6_RoundTrip ==
    \A r \in Reqs :
        (Done(r) /\ Reserved(r) /\ hist[r].nPost = 0 /\ ReturnCompleted(r) /\ Alone(r))
            => /\ userQuotaCache = cfg.userQuota
               /\ tokenRemainQuota = cfg.tokenQuota

\* C7: under concurrent preConsumeQuota calls the cached account balance
\* never becomes negative (no settlement has refreshed the cache yet).
C7_CacheNeverNegative ==
    (\A r \in Reqs : hist[r].nPost = 0) => userQuotaCache >= 0

\* C8: when the balance preConsumeQuota read is <= 0 or below the requested
\* amount, the request ends with insufficient_user_quota (403), no balance
\* is changed and neither adaptor nor upstream is called.
C8_InsufficientUserQuotaRejected ==
    \A r \in Reqs :
        (hist[r].read /\ (hist[r].readQuota <= 0 \/ hist[r].readQuota < hist[r].requested))
            => /\ Done(r)
               /\ rq[r].err = OpenAIErrorWrapper("insufficient_user_quota", 403)
               /\ hist[r].cacheDebit = 0 /\ hist[r].tokenDebit = 0 /\ hist[r].dbDebit = 0
               /\ ~hist[r].adaptor /\ ~hist[r].upstream
               /\ Alone(r) => (/\ userQuotaCache = cfg.userQuota
                               /\ userQuotaDB = cfg.userQuota
                               /\ tokenRemainQuota = cfg.tokenQuota)

\* A positive balance below the requested amount was rejected.
C8_Witness ==
    \E r \in Reqs :
        /\ Done(r) /\ hist[r].read
        /\ hist[r].readQuota > 0 /\ hist[r].readQuota < hist[r].requested
        /\ rq[r].err.status = 403

\* C9: when PreConsumeTokenQuota fails the request is rejected with 403, no
\* upstream call is made and the account balance is as before.
C9_CredentialRejectionNoSideEffect ==
    \A r \in Reqs :
        (Done(r) /\ rq[r].err.code = "pre_consume_token_quota_failed")
            => /\ rq[r].err.status = 403
               /\ ~hist[r].upstream
               /\ Alone(r) => userQuotaCache = cfg.userQuota

\* C10: the trusted fast path (reserved 0 for a requested amount > 0) leaves
\* the account balance and the credential balance unchanged.
C10_TrustedPathChangesNothing ==
    \A r \in Reqs :
        (rq[r].pc = "adaptor" /\ hist[r].requested > 0 /\ hist[r].reserved = 0 /\ Alone(r))
            => /\ userQuotaCache = cfg.userQuota
               /\ tokenRemainQuota = cfg.tokenQuota

\* preConsumeQuota has just returned to TextHelper without error: the balance
\* it read, the credential quota of the request context and the amount it was
\* asked for are still at hand.
Accepted(r) == rq[r].pc = "adaptor"

\* C11 (as stated): preConsumeQuota returns reserved 0 whenever the balance it
\* read exceeds 100 times the requested amount and the credential is
\* unlimited or has at least 100 times the requested amount; in every other
\* accepted case it returns the requested amount.
C11_SkipsWithHeadroomAtLeast ==
    \A r \in Reqs :
        Accepted(r) =>
            LET requested == hist[r].requested
                skip == /\ hist[r].readQuota > 100 * requested
                        /\ (cfg.tokenUnlimited \/ rq[r].tokenQuota >= 100 * requested)
            IN  hist[r].reserved = IF skip THEN 0 ELSE requested

\* C11 (amended): the credential's headroom, like the account balance, has to
\* exceed 100 times the requested amount for the reservation to be skipped.
C11_SkipsWithHeadroomAbove ==
    \A r \in Reqs :
        Accepted(r) =>
            LET requested == hist[r].requested
                skip == /\ hist[r].readQuota > 100 * requested
                        /\ (cfg.tokenUnlimited \/ rq[r].tokenQuota > 100 * requested)
            IN  hist[r].reserved = IF skip THEN 0 ELSE requested

\* A limited credential with exactly 100 times the requested amount, under an
\* account balance above the threshold: the full amount was reserved.
C11_Witness ==
    \E r \in Reqs :
        /\ Accepted(r) /\ ~cfg.tokenUnlimited
        /\ hist[r].requested > 0
        /\ hist[r].readQuota > 100 * hist[r].requested
        /\ rq[r].tokenQuota = 100 * hist[r].requested
        /\ hist[r].reserved = hist[r].requested

\* The reservation was skipped for a limited and for an unlimited credential.
C11_SkipReached ==
    \E r \in Reqs :
        /\ Accepted(r) /\ hist[r].requested > 0 /\ hist[r].reserved = 0

\* A charge of nonzero usage has been computed.
Charged == calc.pc = "charged" /\ calc.promptTokens + calc.completionTokens # 0

\* (promptTokens + completionTokens * completionRatio) * modelRatio *
\* groupRatio of the computation, as numerator and denominator.
ChargeProduct ==
    LET p == calc.pricing
    IN  <<(calc.promptTokens * p.completionRatio[2]
              + calc.completionTokens * p.completionRatio[1])
              * p.modelRatio[1] * p.groupRatio[1],
          p.completionRatio[2] * p.modelRatio[2] * p.groupRatio[2]>>

\* unit price * quota-per-unit * group ratio, as numerator and denominator.
FixedProduct ==
    LET p == calc.pricing
    IN  <<p.modelPrice[1] * QuotaPerUnit * p.groupRatio[1],
          p.modelPrice[2] * p.groupRatio[2]>>

\* q is x with its fraction cut off, x = <<numerator, denominator>> >= 0.
IsTruncated(q, x) == q * x[2] <= x[1] /\ x[1] < (q + 1) * x[2]

\* q is x rounded to the nearest integer, halves upwards.
IsRounded(q, x) == (2 * q - 1) * x[2] <= 2 * x[1] /\ 2 * x[1] < (2 * q + 1) * x[2]

\* The combined ratio modelRatio * groupRatio is not zero.
RatioNonzero == calc.pricing.modelRatio[1] * calc.pricing.groupRatio[1] # 0

\* C12 (as stated): for nonzero total tokens the charge under ratio pricing is
\* (promptTokens + completionTokens * completionRatio) * modelRatio *
\* groupRatio rounded to the nearest integer, raised to 1 when the combined
\* ratio is nonzero and the result would be 0; under a fixed price it is the
\* whole units of unit price * quota-per-unit * group ratio, whatever the tokens.
C12_ChargeIsRounded ==
    Charged =>
        IF calc.pricing.modelPrice = NoPrice
        THEN IF RatioNonzero /\ IsRounded(0, ChargeProduct)
             THEN calc.quota = 1
             ELSE IsRounded(calc.quota, ChargeProduct)
        ELSE IsTruncated(calc.quota, FixedProduct)

\* C12 (amended): the charge under ratio pricing is computed with int()
\* conversions, which cut the fraction off: first of completionTokens *
\* completionRatio, then of (promptTokens + that) * modelRatio * groupRatio;
\* it is raised to 1 when the combined ratio is nonzero and the result is 0.
C12_ChargeIsTruncated ==
    Charged =>
        IF calc.pricing.modelPrice = NoPrice
        THEN \E weighted \in 0..(2 * MaxChargeTokens) :
                 /\ IsTruncated(weighted, <<calc.completionTokens * calc.pricing.completionRatio[1],
                                            calc.pricing.completionRatio[2]>>)
                 /\ LET x == <<(calc.promptTokens + weighted)
                                   * calc.pricing.modelRatio[1] * calc.pricing.groupRatio[1],
                               calc.pricing.modelRatio[2] * calc.pricing.groupRatio[2]>>
                    IN  IF RatioNonzero /\ IsTruncated(0, x)
                        THEN calc.quota = 1
                        ELSE IsTruncated(calc.quota, x)
        ELSE IsTruncated(calc.quota, FixedProduct)

\* A charge under ratio pricing, not raised to 1, where cutting off and
\* rounding differ.
C12_Witness ==
    /\ Charged /\ calc.pricing.modelPrice = NoPrice
    /\ calc.quota > 1
    /\ ~IsRounded(calc.quota, ChargeProduct)

\* A charge that was raised to 1.
C12_RaisedReached ==
    /\ Charged /\ calc.pricing.modelPrice = NoPrice /\ RatioNonzero
    /\ calc.quota = 1 /\ IsTruncated(0, ChargeProduct)

\* C13: every invocation of postConsumeQuota, one with zero usage included,
\* appends exactly one consume-log entry carrying the charge, adds the charge
\* to the account's used quota and to the channel's used quota, counts the
\* request, and refreshes the account's quota cache entry from the store.
C13_EverySettlementRecords ==
    [][\A r \in Reqs :
          hist'[r].nPost = hist[r].nPost + 1 =>
              /\ Len(consumeLog') = Len(consumeLog) + 1
              /\ consumeLog'[Len(consumeLog')].req = r
              /\ consumeLog'[Len(consumeLog')].quota = hist'[r].charge
              /\ userUsedQuota' = userUsedQuota + hist'[r].charge
              /\ channelUsedQuota' = channelUsedQuota + hist'[r].charge
              /\ userRequestCount' = userRequestCount + 1
              /\ userQuotaCache' = userQuotaDB']_vars

\* TextHelper has rejected request r before it called preConsumeQuota: the
\* request was invalid, its model mapping unreadable, its prompt matched a
\* sensitive word, or its tokens could not be counted.
RejectedBeforeReservation(r) ==
    /\ Done(r)
    /\ \/ rq[r].err.code \in {"invalid_text_request", "unmarshal_model_mapping_failed",
                              "count_token_messages_failed"}
       \/ rq[r].err.code = "sensitive_words_detected" /\ hist[r].requested = -1

\* C14: when TextHelper rejects a request before the reservation, no ledger
\* operation (no read or decrement of the balance, no credential reservation,
\* no return, no settlement) and no adaptor or upstream call has been made, and
\* the balances are untouched.
C14_RejectionBeforeReservationTouchesNothing ==
    \A r \in Reqs :
        RejectedBeforeReservation(r) =>
            /\ ~hist[r].read /\ hist[r].requested = -1 /\ hist[r].reserved = -1
            /\ hist[r].cacheDebit = 0 /\ hist[r].tokenDebit = 0 /\ hist[r].dbDebit = 0
            /\ hist[r].nReturn = 0 /\ hist[r].nPost = 0
            /\ ~hist[r].adaptor /\ ~hist[r].upstream
            /\ Alone(r) => (/\ userQuotaCache = cfg.userQuota
                            /\ userQuotaDB = cfg.userQuota
                            /\ tokenRemainQuota = cfg.tokenQuota
                            /\ consumeLog = <<>>)

\* One request was rejected by the validation and another one for a
\* sensitive prompt, on an account that could have paid for them.
C14_Witness ==
    \E r, s \in Reqs :
        /\ Done(r) /\ rq[r].err = OpenAIErrorWrapper("invalid_text_request", 400)
        /\ Done(s) /\ rq[s].err = OpenAIErrorWrapper("sensitive_words_detected", 400)
        /\ hist[s].requested = -1
        /\ cfg.userQuota > 0

\* A request was rejected because its tokens could not be counted.
C14_CountFailureReached ==
    \E r \in Reqs :
        Done(r) /\ rq[r].err = OpenAIErrorWrapper("count_token_messages_failed", 500)

\* The upstream has answered request r with an HTTP status.
Answered(r) == hist[r].status # -1

\* TextHelper has treated the answer to r as an upstream failure: it called
\* returnPreConsumedQuota with the reserved amount, ran neither the response
\* handler nor the settlement, and returned the upstream's status.
TreatedAsUpstreamFailure(r) ==
    /\ Done(r)
    /\ rq[r].err = OpenAIErrorWrapper("upstream_error", hist[r].status)
    /\ hist[r].nReturn = 1 /\ hist[r].returnArg = hist[r].reserved
    /\ ~hist[r].handler /\ hist[r].nPost = 0

\* The answer to r is, or is about to be, handed to the response handler.
HandedToHandler(r) == rq[r].pc = "do_response" \/ hist[r].handler

\* C15 (as stated): an upstream response is treated as an upstream failure if
\* and only if its status is not 2xx; every 2xx response is handed to the
\* response handler.
C15_FailureIffNon2xx ==
    \A r \in Reqs :
        Answered(r) =>
            IF hist[r].status \in 200..299
            THEN HandedToHandler(r) /\ ~TreatedAsUpstreamFailure(r)
            ELSE TreatedAsUpstreamFailure(r) /\ ~HandedToHandler(r)

\* C15 (amended): an upstream response is treated as an upstream failure if
\* and only if its status is not 200; only a 200 response is handed to the
\* response handler.
C15_FailureIffNot200 ==
    \A r \in Reqs :
        Answered(r) =>
            IF hist[r].status = 200
            THEN HandedToHandler(r) /\ ~TreatedAsUpstreamFailure(r)
            ELSE TreatedAsUpstreamFailure(r) /\ ~HandedToHandler(r)

\* A 201 response, with a reservation > 0 at stake, was treated as a failure,
\* and another request's 200 response reached the handler.
C15_Witness ==
    \E r, s \in Reqs :
        /\ hist[r].status = 201 /\ hist[r].reserved > 0 /\ TreatedAsUpstreamFailure(r)
        /\ hist[s].status = 200 /\ hist[s].handler

\* C16: when the response handler reports a sensitive match, TextHelper runs
\* postConsumeQuota with the usage reported and does not return the
\* reservation; it returns the handler's error if the stop-on-sensitive
\* policy is enabled and success if it is not.
C16_SensitiveMatchIsSettled ==
    \A r \in Reqs :
        hist[r].sensitive =>
            /\ Done(r)
            /\ hist[r].nPost = 1 /\ hist[r].nReturn = 0 /\ returnGo[r] = 0
            /\ LogEntries(r) # {}
            /\ \A i \in LogEntries(r) : consumeLog[i].tokens = hist[r].totalTokens
            /\ rq[r].err = IF hist[r].stop
                           THEN OpenAIErrorWrapper("sensitive_words_detected", 400)
                           ELSE NoErr

\* A sensitive match with the policy disabled, after a reservation > 0 and
\* with tokens to pay, and another one with the policy enabled.
C16_Witness ==
    \E r, s \in Reqs :
        /\ hist[r].sensitive /\ ~hist[r].stop /\ hist[r].reserved > 0
        /\ hist[r].totalTokens > 0 /\ rq[r].err = NoErr
        /\ hist[s].sensitive /\ hist[s].stop /\ rq[s].err # NoErr

\* C17: a successful response is processed by the streaming handler if and
\* only if the client requested streaming or the upstream's Content-Type
\* begins with text/event-stream, and within a request IsStream never changes
\* from true back to false.
C17_StreamHandlerIffStreaming ==
    /\ [](spc.handler # "none" =>
             (spc.handler = "stream" <=> (streamCfg.Stream \/ streamCfg.eventStream)))
    /\ [][IsStream => IsStream']_vars

\* The client did not ask for a stream, the upstream streamed anyway, and the
\* streaming handler has written a frame.
C17_Witness ==
    /\ ~streamCfg.Stream /\ streamCfg.eventStream
    /\ spc.handler = "stream" /\ clientFrames # <<>>

\* The non-streaming handler was chosen.
C17_NonStreamReached == spc.handler = "nonstream" /\ spc.main = "returned"

\* The body line a client frame was made of; 0 for the terminator that the
\* producer injects itself after a sensitive match.
LineOf(i) == clientFrames[i].n

\* C18: the frames the client has received are, at every moment, retained
\* lines of the upstream body in the order of the body, none of them twice
\* and none out of place; the terminator the producer injects itself comes
\* after all of them.
C18_FramesInUpstreamOrder ==
    /\ \A i \in 1..Len(clientFrames) :
           LineOf(i) # 0 =>
               /\ LineOf(i) \in 1..Len(streamCfg.lines)
               /\ Retained(streamCfg.lines[LineOf(i)])
               /\ clientFrames[i].kind = streamCfg.lines[LineOf(i)].kind
    /\ \A i, j \in 1..Len(clientFrames) :
           i < j => /\ LineOf(i) # 0
                    /\ LineOf(j) # 0 => LineOf(i) < LineOf(j)

\* The client has several frames, the producer having dropped a line between
\* two of them.
C18_Witness ==
    /\ Len(clientFrames) >= 2
    /\ \E i \in 1..(Len(clientFrames) - 1) :
           LineOf(i) # 0 /\ LineOf(i + 1) > LineOf(i) + 1

\* The write loop of the streaming handler has ended.
WriteLoopEnded == spc.handler = "stream" /\ spc.main \in {"close_body", "wait", "returned"}

\* C19: every frame the producer pushed onto the hand-off queue is written to
\* the client before the write loop stops: the loop never ends on the stop
\* signal while frames are still queued.
C19_NoFrameLeftQueued ==
    WriteLoopEnded => dataChan = <<>>

RECURSIVE TextFrom(_)
\* The contents, in the order of the body, of the frames the producer retains
\* from line i on: each data frame's delta content in chat mode, its choice
\* text in completions mode, redacted where the filter matched; the
\* terminator and dropped lines have none; nothing is read after a sensitive
\* match under the stop policy.
TextFrom(i) ==
    IF i > Len(streamCfg.lines) THEN <<>>
    ELSE LET line == streamCfg.lines[i]
             matched == streamCfg.checkSensitive /\ line.sensitive
             own == IF line.kind = "data"
                    THEN << [field |-> IF streamCfg.RelayMode = "chat_completions"
                                       THEN "delta" ELSE "text",
                             n |-> i, redacted |-> matched] >>
                    ELSE <<>>
         IN  own \o (IF matched /\ streamCfg.StopOnSensitiveEnabled THEN <<>>
                     ELSE TextFrom(i + 1))

\* OpenaiStreamHandler has returned without error, in chat or completions mode.
StreamReturnedOk ==
    /\ spc.handler = "stream" /\ spc.main = "returned" /\ spc.err = ""
    /\ streamCfg.RelayMode \in {"chat_completions", "completions"}

C21_NoReturnWhileProducerRuns ==
    /\ (spc.handler = "stream" /\ spc.main = "returned") => spc.producer = "done"
    /\ spc.producer # "panic"

\* C22: once the client has left a streaming response, OpenaiStreamHandler
\* returns in the end.
C22_DisconnectLeadsToReturn ==
    (spc.handler = "stream" /\ spc.gone) ~> (spc.main = "returned")

\* The matches of a text against a phrase list, all of them.
HitsOf(text, words) == TermsUpTo(ToLower(text), LongestFirst(readRunes(words)), Len(text))

\* No two of the hits share a character of the text.
Apart(hits) ==
    \A j, k \in 1..Len(hits) :
      j < k => hits[j].Pos + Len(hits[j].Word) <= hits[k].Pos

RECURSIVE RedactSpans(_, _)
\* text with the span of every hit replaced by the mask, the spans taken from
\* the last to the first so that each offset is that of the original text.
RedactSpans(text, hits) ==
    IF hits = <<>> THEN text
    ELSE LET h == hits[Len(hits)]
         IN  RedactSpans(SubSeq(text, 1, h.Pos) \o Mask \o
                           SubSeq(text, h.Pos + Len(h.Word) + 1, Len(text)),
                         SubSeq(hits, 1, Len(hits) - 1))

\* The frames the producer has pushed so far, in the order of pushing: those
\* the write loop has rendered and those still in dataChan.
Pushed == clientFrames \o dataChan

\* The producer has left its reading loop.
LoopLeft == spc.producer \in {"parse", "drain", "sleep", "send_stop", "done"}
            \/ (spc.producer = "scan" /\ scanner = <<>>)

\* C23: with completion-side sensitive checking on, a line that matches is
\* pushed redacted, every match of it masked, never as it came. Under the
\* stop policy the producer pushes "data: [DONE]" right after it as the last
\* frame and reads no line of the body after the matching one; without the
\* policy it pushes no terminator of its own and goes on to read the whole
\* body and push every line it retains.
C23_SensitiveLineRedactedThenStop ==
    /\ \A i \in 1..Len(Pushed) :
          Pushed[i].n # 0 =>
            /\ Pushed[i].redacted = (streamCfg.checkSensitive /\ streamCfg.lines[Pushed[i].n].sensitive)
            /\ Pushed[i].redacted =>
                  Pushed[i].text = RedactSpans(streamCfg.lines[Pushed[i].n].text,
                                               HitsOf(streamCfg.lines[Pushed[i].n].text, StreamWords))
    /\ streamCfg.StopOnSensitiveEnabled =>
          \A i \in 1..Len(Pushed) :
            Pushed[i].redacted =>
              /\ Len(scanner) = Len(streamCfg.lines) - Pushed[i].n
              /\ IF i = Len(Pushed) THEN spc.producer = "inject"
                 ELSE Len(Pushed) = i + 1 /\ Pushed[i + 1] = InjectedDone
    /\ ~streamCfg.StopOnSensitiveEnabled =>
          /\ \A i \in 1..Len(Pushed) : Pushed[i] # InjectedDone
          /\ LoopLeft =>
                /\ scanner = <<>>
                /\ \A k \in 1..Len(streamCfg.lines) :
                      Retained(streamCfg.lines[k]) => \E i \in 1..Len(Pushed) : Pushed[i].n = k

\* A match under the stop policy: the redacted frame and the terminator have
\* reached the client, a line of the body was never read.
C23_Witness ==
    /\ streamCfg.StopOnSensitiveEnabled
    /\ Len(clientFrames) >= 2
    /\ clientFrames[Len(clientFrames) - 1].redacted
    /\ clientFrames[Len(clientFrames)] = InjectedDone
    /\ scanner # <<>>
    /\ spc.producer = "done"

\* A match without the stop policy: the redacted frame has reached the
\* client and so has the frame of the line after it.
C23_KeepsReadingReached ==
    /\ streamCfg.checkSensitive /\ ~streamCfg.StopOnSensitiveEnabled
    /\ \E i \in 1..Len(clientFrames) :
          /\ clientFrames[i].redacted
          /\ i < Len(clientFrames)
          /\ clientFrames[i + 1].n = clientFrames[i].n + 1

\* The matches of the filter's text, all of them.
AllHits == TermsUpTo(ToLower(filt.text), LongestFirst(readRunes(filt.SensitiveWords)), Len(filt.text))

\* C24: SensitiveWordReplace, asked for every match, returns the text with
\* exactly the matched spans, at their offsets in the original text, replaced
\* by the mask; stated for matches that do not overlap.
C24_EveryMatchRedactedInPlace ==
    (filt.pc = "replaced" /\ ~filt.returnImmediately /\ Apart(AllHits)) =>
      /\ ~filt.out.panic
      /\ filt.out.text = RedactSpans(filt.text, AllHits)

\* C25: with no phrase configured SensitiveWordReplace and
\* SensitiveWordContains report no match and no words, and
\* SensitiveWordReplace returns the text as it was given.
C25_NoPhrasesNoMatch ==
    (filt.pc # "call" /\ filt.SensitiveWords = <<>>) =>
      /\ ~filt.out.panic
      /\ ~filt.out.hit
      /\ filt.out.words = <<>>
      /\ filt.pc = "replaced" => filt.out.text = filt.text

\* SensitiveWordReplace has returned for a text of several characters and no
\* phrase.
C25_Witness ==
    /\ filt.pc = "replaced"
    /\ filt.SensitiveWords = <<>>
    /\ Len(filt.text) >= 2

\* SensitiveWordContains has returned for a text and no phrase.
C25_ContainsReached ==
    /\ filt.pc = "contained"
    /\ filt.SensitiveWords = <<>>
    /\ filt.text # <<>>

\* Choice i of the response has got a body written for it and its text
\* matches a phrase, the matches not overlapping.
MatchingChoiceWritten(i) ==
    /\ plain.pc = "returned"
    /\ plain.checkSensitive /\ ~plain.StopOnSensitiveEnabled
    /\ plain.written
    /\ i \in 1..Len(plain.Choices)
    /\ plain.SensitiveWords # <<>>
    /\ HitsOf(plain.Choices[i], plain.SensitiveWords) # <<>>
    /\ Apart(HitsOf(plain.Choices[i], plain.SensitiveWords))

\* C26: with completion-side sensitive checking on and the stop policy off,
\* the body OpenaiHandler writes holds, for every choice whose text matched,
\* the redacted text and not the text as it came.
C26_MatchingChoiceSentRedacted ==
    \A i \in 1..MaxChoices :
      MatchingChoiceWritten(i) =>
        /\ plain.body[i] # plain.Choices[i]
        /\ plain.body[i] = RedactSpans(plain.Choices[i], HitsOf(plain.Choices[i], plain.SensitiveWords))

\* The retry parameter of the request is absent or a number that is not
\* negative.
WellFormed(query) == query = <<>> \/ IsDigits(query)

\* The retry counter in force for a request, as the claim gives it.
EffectiveCounter(query) == IF query = <<>> THEN ctl.RetryTimes ELSE DigitsValue(query)

C27_DefaultReached ==
    /\ ctl.pc = "answered"
    /\ ctl.query = <<>>
    /\ ctl.answer.kind = "redirect"
    /\ ctl.answer.retry = Itoa(ctl.RetryTimes - 1)

\* C28: whatever retry parameter the first request carries, the redirects of
\* a chain of attempts are never more than the configured common.RetryTimes.
C28_RedirectsWithinConfiguredMaximum == ctl.redirects <= ctl.RetryTimes

\* C29: Relay disables the channel exactly when the relay returned an error,
\* the error is one that impairs the channel and the channel's auto-ban flag
\* is on, whether it answered with the redirect or with the error; otherwise
\* the channel's enabled flag stays as it was.
C29_DisabledIffImpairingAndAutoBan ==
    ctl.pc = "answered" =>
      /\ ctl.disabled <=> (ctl.err.failed /\ ShouldDisableChannel(ctl.err) /\ ctl.autoBan)
      /\ ctl.disabled => ~ctl.enabled
      /\ ~ctl.disabled => ctl.enabled = ctl.wasEnabled

\* The channel was disabled by an attempt that was answered with a redirect.
C29_Witness ==
    /\ ctl.pc = "answered"
    /\ ctl.disabled /\ ctl.wasEnabled /\ ~ctl.enabled
    /\ ctl.answer.kind = "redirect"

\* The channel was disabled by an attempt that was answered with the error.
C29_FinalErrorReached ==
    /\ ctl.pc = "answered"
    /\ ctl.disabled /\ ctl.wasEnabled /\ ~ctl.enabled
    /\ ctl.answer.kind = "error"

\* An impairing error with auto-ban off has left the channel enabled.
C29_AutoBanOffReached ==
    /\ ctl.pc = "answered"
    /\ ctl.err.failed /\ ShouldDisableChannel(ctl.err) /\ ~ctl.autoBan
    /\ ctl.enabled

\* s ends in one of the three date suffixes.
EndsInDate(s) == \E i \in 1..3 : HasSuffix(s, DateSuffixes[i])

RECURSIVE IsDates(_)
\* s is made of date suffixes and nothing else.
IsDates(s) ==
    \/ s = <<>>
    \/ \E i \in 1..3 : HasSuffix(s, DateSuffixes[i]) /\ IsDates(TrimSuffix(s, DateSuffixes[i]))

\* The request path as the claim has it in the URL: up to its query string,
\* without the prefix "/v1/".
TaskOf(path) ==
    LET bare == SubSeq(path, 1, (CHOOSE n \in 0..Len(path) :
                                   /\ \A k \in 1..n : path[k] # "?"
                                   /\ n < Len(path) => path[n + 1] = "?"))
    IN  IF HasPrefix(bare, <<"/", "v", "1", "/">>) THEN SubSeq(bare, 5, Len(bare)) ELSE bare

\* C30: for an Azure channel the path is
\* /openai/deployments/<deployment>/<task>?api-version=<version>: the
\* deployment is the model name without its dots and without the date suffix
\* it ends in, the task the request path without "/v1/" and without its query
\* string.
C30_AzureDeploymentPath ==
    (azure.pc = "built" /\ azure.ChannelType = "azure") =>
      LET name == SelectSeq(azure.UpstreamModelName, LAMBDA ch : ch # ".")
      IN  \E n \in 0..Len(name) :
            /\ IsDates(SubSeq(name, n + 1, Len(name)))
            /\ EndsInDate(name) => n < Len(name)
            /\ azure.url = <<"/openai/deployments/">> \o SubSeq(name, 1, n) \o <<"/">>
                            \o TaskOf(azure.RequestURLPath) \o <<"?api-version=">> \o azure.ApiVersion

\* The model gpt-4-32k-0613 asked for on a path with a query string: the
\* deployment is gpt-4-32k.
C30_Witness ==
    /\ azure.pc = "built"
    /\ azure.ChannelType = "azure"
    /\ azure.UpstreamModelName = Gpt432k \o DateSuffixes[3]
    /\ azure.RequestURLPath = <<"/", "v", "1", "/", "c", "?", "r">>
    /\ azure.url = <<"/openai/deployments/">> \o Gpt432k \o <<"/", "c", "?api-version=">> \o azure.ApiVersion

\* A model name with a dot in it.
C30_DotReached ==
    /\ azure.pc = "built"
    /\ azure.ChannelType = "azure"
    /\ azure.UpstreamModelName = Gpt432k \o <<".">> \o Gpt432k
    /\ azure.url = <<"/openai/deployments/">> \o Gpt432k \o Gpt432k \o <<"/">>
                    \o TaskOf(azure.RequestURLPath) \o <<"?api-version=">> \o azure.ApiVersion

\* C31: once the upstream stream has ended (the producer has left its read
\* loop, at the end of the input or on a read error), OpenaiStreamHandler
\* returns in the end: the producer delivers the stop signal to the write
\* loop, also when what it kept does not parse as JSON for the relay mode.
C31_StreamEndLeadsToReturn ==
    (spc.handler = "stream" /\ LoopLeft) ~> (spc.main = "returned")

\* The goroutine is over, the write loop still runs, and the stop signal is
\* neither in stopChan nor on its way: the parse error's return skipped it.
C31_EndedWithoutStopSignal ==
    /\ spc.handler = "stream"
    /\ spc.producer = "done"
    /\ spc.main = "stream"
    /\ ~spc.gone
    /\ dataChan = <<>>
    /\ stopChan = <<>>
    /\ ~JsonArrayOk(streamItems)

\* OpenaiHandler has returned without an error for a response in which
\* nothing matched.
ReturnedSuccess == plain.pc = "returned" /\ plain.err = "" /\ plain.outcome = ""

\* C32: when OpenaiHandler returns success for a response without a sensitive
\* match, the upstream headers, status and body have been written to the
\* client, headers and status before the body, whatever the stop-on-sensitive
\* setting.
C32_SuccessMeansWritten ==
    ReturnedSuccess => plain.wire = <<"header", "status", "body">>

\* Success under the stop policy, the response left unwritten.
C32_StopPolicyReached ==
    /\ ReturnedSuccess
    /\ plain.StopOnSensitiveEnabled
    /\ plain.Choices # <<>>
    /\ plain.wire = <<>>

\* Success with the stop policy off, the response written in order.
C32_WrittenReached ==
    /\ ReturnedSuccess
    /\ ~plain.StopOnSensitiveEnabled
    /\ plain.Choices # <<>>
    /\ plain.wire = <<"header", "status", "body">>

\* C33: SensitiveWordReplace never slices the text it is rewriting outside
\* its bounds: for every text and every phrase list the call returns
\* normally, whether the matched phrases are longer or shorter than the mask
\* and however many matches there are.
C33_ReplaceNeverPanics ==
    filt.pc = "replaced" => ~filt.out.panic

\* The call has panicked: a hit's offsets lie past the end of the text the
\* earlier replacements have left.
C33_PanicReached ==
    /\ filt.pc = "replaced"
    /\ filt.out.panic
    /\ Len(filt.SensitiveWords) = 1
    /\ Len(AllHits) = 2

\* The relay modes getAndValidateTextRequest has a case for.
ValidatedModes == {"completions", "chat_completions", "embeddings", "moderations", "edits"}

\* The request passed validation in one of the validated modes, the tokenizer
\* neither failing nor reporting a sensitive match.
PassedValidation ==
    /\ prep.pc = "counted"
    /\ prep.RelayMode \in ValidatedModes
    /\ prep.tok.err = ""

\* C34: a request that passes validation in a validated relay mode is priced
\* by getPromptTokens without the unknown-relay-mode error and goes on to the
\* reservation, unless the tokenizer fails or the prompt holds a sensitive
\* phrase.
C34_ValidatedModeIsPriced ==
    PassedValidation =>
      /\ prep.promptTokens.err # "unknown relay mode"
      /\ prep.out.err = NoErr

\* A valid edits request turned down with the unknown-relay-mode error.
C34_EditsRejectedReached ==
    /\ PassedValidation
    /\ prep.RelayMode = "edits"
    /\ prep.textRequest.instruction
    /\ prep.promptTokens.err = "unknown relay mode"
    /\ prep.out.err = OpenAIErrorWrapper("count_token_messages_failed", 500)

\* A valid request of another validated mode priced and on its way to the
\* reservation.
C34_PricedReached ==
    /\ PassedValidation
    /\ prep.RelayMode = "moderations"
    /\ prep.promptTokens = prep.tok
    /\ prep.out.err = NoErr

====
